---- MODULE Spec2Model ----
(***************************************************************************)
(* State machine of the state-threads rewrite: the scheduler and its run,  *)
(* I/O and zombie queues (sched.c), the sleep heap (sched.c), the epoll    *)
(* reactor (event.c), and the condition variable / mutex primitives        *)
(* (sync.c).  Queues are the intrusive circular lists of common.h, kept at *)
(* pointer level (next/prev per link) because the code relinks nodes that  *)
(* are already linked.                                                     *)
(***************************************************************************)
EXTENDS Integers, Sequences, FiniteSets, TLC

(* ------------------------------ bounds -------------------------------- *)
\* fibers that can exist besides the primordial and the idle one
MaxFibers == 3
\* how many of them the ThreadCreate action of Spec makes
MaxCreated == 1
\* how many of them the fiber creation of SpecReactor makes
MaxPollers == 2
\* largest value st_utime() returns
MaxClock == 1
\* user condition variables (st_cond_new) and mutexes (st_mutex_new)
NumConds == 1
NumMutexes == 1

(* --------------------------- program constants ------------------------ *)
ST_ST_RUNNING == "RUNNING"
ST_ST_RUNNABLE == "RUNNABLE"
ST_ST_IO_WAIT == "IO_WAIT"
ST_ST_LOCK_WAIT == "LOCK_WAIT"
ST_ST_COND_WAIT == "COND_WAIT"
ST_ST_SLEEPING == "SLEEPING"
ST_ST_ZOMBIE == "ZOMBIE"
ST_ST_SUSPENDED == "SUSPENDED"

ST_FL_PRIMORDIAL == "PRIMORDIAL"
ST_FL_IDLE_THREAD == "IDLE_THREAD"
ST_FL_ON_SLEEPQ == "ON_SLEEPQ"
ST_FL_INTERRUPT == "INTERRUPT"
ST_FL_TIMEDOUT == "TIMEDOUT"

\* ((st_utime_t)-1LL); timeouts are drawn from Timeouts below
ST_UTIME_NO_TIMEOUT == -1

\* errno values, by name
OK == "OK"
EINTR == "EINTR"
ETIME == "ETIME"
EINVAL == "EINVAL"
EDEADLK == "EDEADLK"
EPERM == "EPERM"
EBUSY == "EBUSY"
EKERNEL == "EKERNEL"
EBADF == "EBADF"

\* poll / epoll event bits (POLLIN == EPOLLIN and so on, one name per bit)
POLLIN == "IN"
POLLOUT == "OUT"
POLLPRI == "PRI"
POLLERR == "ERR"
POLLHUP == "HUP"
POLLNVAL == "NVAL"

(* ------------------------------ fibers -------------------------------- *)
Primordial == 0
IdleThread == 1
Created == 2..(MaxFibers + 1)
Threads == {Primordial, IdleThread} \cup Created
NoThread == -1

\* condition variables: the user's, then the "term" condvar of each fiber
UserConds == 0..(NumConds - 1)
TermCond(t) == NumConds + t
Conds == UserConds \cup {TermCond(t) : t \in Threads}
NoCond == -1
Mutexes == 0..(NumMutexes - 1)

Fds == {0, 1}
Timeouts == {ST_UTIME_NO_TIMEOUT, 0}

(* ----------------------- list anchors (_st_clist_t) ------------------- *)
NULL == <<"null", 0>>
RUNQ == <<"run_q", 0>>
IOQ == <<"io_q", 0>>
ZOMBIEQ == <<"zombie_q", 0>>
Links(t) == <<"links", t>>
WaitLinks(t) == <<"wait_links", t>>
PqLinks(t) == <<"pq", t>>
CondQ(c) == <<"cond_wait_q", c>>
MutexQ(m) == <<"mutex_wait_q", m>>

Heads == {RUNQ, IOQ, ZOMBIEQ} \cup {CondQ(c) : c \in Conds} \cup {MutexQ(m) : m \in Mutexes}
Nodes == Heads \cup {Links(t) : t \in Threads} \cup {WaitLinks(t) : t \in Threads}
           \cup {PqLinks(t) : t \in Threads}

VARIABLES
  state,        \* _st_thread_t.state
  flags,        \* _st_thread_t.flags, as the set of bits that are set
  term,         \* _st_thread_t.term: the fiber's condvar, or NoCond
  retval,       \* _st_thread_t.retval
  nxt, prv,     \* _st_clist_t.next / .prev of every list anchor
  sleep_q,      \* _st_this_vp.sleep_q: root of the sleep heap, or NoThread
  sleepq_size,  \* _st_this_vp.sleepq_size
  left, right,  \* _st_thread_t.left / .right
  heap_index,   \* _st_thread_t.heap_index
  due,          \* _st_thread_t.due
  last_clock,   \* _st_this_vp.last_clock
  now,          \* the value st_utime() returned last
  active_count, \* _st_active_count
  this_thread,  \* _st_this_thread
  owner,        \* _st_mutex_t.owner
  fd_data,      \* _st_epoll_data->fd_data[fd]: rd/wr/ex ref counts and revents
  kreg,         \* the kernel's epoll interest list: fd -> registered event set
  osfd_open,    \* the descriptors that are open in the process
  evtlist_cnt,  \* _st_epoll_data->evtlist_cnt
  pq,           \* the _st_pollq_t on the stack of each fiber inside st_poll
  pc,           \* where each fiber's execution stands
  arg,          \* the arguments of the call a fiber is suspended in
  ret,          \* the call that returned last: [thread, call, rv, errno]
  free_stacks,  \* _st_free_stacks, as the fibers whose stack is on it
  refs_at_call, \* history: the descriptor ref counts when each fiber called st_poll
  wait64,       \* last_clock, the root's due and epoll_wait's timeout at their C widths
  mode         \* who executes: "run" a fiber, "sched" the scheduler, or how it ended

vars == <<state, flags, term, retval, nxt, prv, sleep_q, sleepq_size, left, right,
          heap_index, due, last_clock, now, active_count, this_thread, owner, fd_data,
          kreg, osfd_open, evtlist_cnt, pq, pc, arg, ret, free_stacks, refs_at_call,
          wait64, mode>>

\* the program state as one record, so that a handler is the composition of
\* the statements it executes
Cur == [state |-> state, flags |-> flags, term |-> term, retval |-> retval,
        nxt |-> nxt, prv |-> prv, sleep_q |-> sleep_q, sleepq_size |-> sleepq_size,
        left |-> left, right |-> right, heap_index |-> heap_index, due |-> due,
        last_clock |-> last_clock, now |-> now, active_count |-> active_count,
        this_thread |-> this_thread, owner |-> owner, fd_data |-> fd_data,
        kreg |-> kreg, osfd_open |-> osfd_open, evtlist_cnt |-> evtlist_cnt,
        pq |-> pq, pc |-> pc,
        arg |-> arg, ret |-> ret, free_stacks |-> free_stacks,
        refs_at_call |-> refs_at_call, wait64 |-> wait64, mode |-> mode]

Commit(s) ==
  /\ state' = s.state /\ flags' = s.flags /\ term' = s.term /\ retval' = s.retval
  /\ nxt' = s.nxt /\ prv' = s.prv /\ sleep_q' = s.sleep_q
  /\ sleepq_size' = s.sleepq_size /\ left' = s.left /\ right' = s.right
  /\ heap_index' = s.heap_index /\ due' = s.due /\ last_clock' = s.last_clock
  /\ now' = s.now /\ active_count' = s.active_count /\ this_thread' = s.this_thread
  /\ owner' = s.owner /\ fd_data' = s.fd_data /\ kreg' = s.kreg
  /\ osfd_open' = s.osfd_open
  /\ evtlist_cnt' = s.evtlist_cnt /\ pq' = s.pq /\ pc' = s.pc /\ arg' = s.arg
  /\ ret' = s.ret /\ free_stacks' = s.free_stacks
  /\ refs_at_call' = s.refs_at_call /\ wait64' = s.wait64 /\ mode' = s.mode

\* a statement that dereferences NULL ends the process (SIGSEGV); a loop that
\* never exits hangs it; a failed assert() aborts it
Crash(s) == [s EXCEPT !.mode = "crash"]
Hang(s) == [s EXCEPT !.mode = "hang"]
Abort(s) == [s EXCEPT !.mode = "abort"]
Live(s) == s.mode \in {"run", "sched"}

\* Let(v, LAMBDA x : e) is e with x standing for the value v
Let(v, F(_)) == F(v)

(* ------------------- common.h: circular list macros ------------------- *)
\* ST_INSERT_BEFORE(_e, _l), statement by statement
ST_INSERT_BEFORE(s, e, l) ==
  IF ~Live(s) THEN s
  ELSE LET n1 == [s.nxt EXCEPT ![e] = l]
           p1 == [s.prv EXCEPT ![e] = s.prv[l]]
           lp == p1[l]
       IN IF lp = NULL THEN Crash(s)
          ELSE [s EXCEPT !.nxt = [n1 EXCEPT ![lp] = e], !.prv = [p1 EXCEPT ![l] = e]]

ST_APPEND_LINK(s, e, l) == ST_INSERT_BEFORE(s, e, l)

\* ST_REMOVE_LINK(_e): the node's own next/prev are left as they were
ST_REMOVE_LINK(s, e) ==
  IF ~Live(s) THEN s
  ELSE IF s.prv[e] = NULL THEN Crash(s)
  ELSE LET n1 == [s.nxt EXCEPT ![s.prv[e]] = s.nxt[e]]
       IN IF n1[e] = NULL THEN Crash(s)
          ELSE [s EXCEPT !.nxt = n1, !.prv = [s.prv EXCEPT ![n1[e]] = s.prv[e]]]

ST_CLIST_IS_EMPTY(s, l) == s.nxt[l] = l

ST_ADD_RUNQ(s, t) == ST_APPEND_LINK(s, Links(t), RUNQ)
ST_DEL_RUNQ(s, t) == ST_REMOVE_LINK(s, Links(t))
ST_ADD_ZOMBIEQ(s, t) == ST_APPEND_LINK(s, Links(t), ZOMBIEQ)
ST_DEL_ZOMBIEQ(s, t) == ST_REMOVE_LINK(s, Links(t))
ST_ADD_IOQ(s, t) == ST_APPEND_LINK(s, PqLinks(t), IOQ)
ST_DEL_IOQ(s, t) == ST_REMOVE_LINK(s, PqLinks(t))

(* --------------------------- sched.c: sleep heap ---------------------- *)
\* a _st_thread_t ** is the slot it points at: the root or a child field
RootSlot == <<"root", NoThread>>
LeftSlot(t) == <<"left", t>>
RightSlot(t) == <<"right", t>>
Deref(s, p) ==
  IF p[1] = "root" THEN s.sleep_q ELSE IF p[1] = "left" THEN s.left[p[2]] ELSE s.right[p[2]]
Store(s, p, v) ==
  IF p[1] = "root" THEN [s EXCEPT !.sleep_q = v]
  ELSE IF p[1] = "left" THEN [s EXCEPT !.left[p[2]] = v]
  ELSE [s EXCEPT !.right[p[2]] = v]

Pow2(n) == IF n <= 0 THEN 1 ELSE IF n = 1 THEN 2 ELSE IF n = 2 THEN 4 ELSE IF n = 3 THEN 8 ELSE 16
BitSet(x, bit) == (x \div Pow2(bit)) % 2 = 1

\* heap_insert, "while (s) { s >> 1; bits++; }": s is never assigned, so the
\* loop exits (with bits = 0) only when s is 0 on entry; otherwise it spins.
\* Diverges stands for the loop that does not exit.
Diverges == -1
InsertBits(target) == IF target = 0 THEN 0 ELSE Diverges

\* heap_delete, "while (s) { s >>= 1; bits++; }"
RECURSIVE DeleteBits(_)
DeleteBits(size) == IF size <= 0 THEN 0 ELSE 1 + DeleteBits(size \div 2)

\* heap_insert's for loop and the three statements after it; the result is
\* the state and the slot p the function returns
RECURSIVE InsertWalk(_, _, _, _, _, _)
InsertWalk(s, thread, p, bit, index, target) ==
  IF bit < 0
  THEN [st |-> [Store([s EXCEPT !.heap_index[thread] = index], p, thread)
                  EXCEPT !.left[thread] = NoThread, !.right[thread] = NoThread],
        p |-> p]
  ELSE IF Deref(s, p) = NoThread THEN [st |-> Crash(s), p |-> p]
  ELSE Let(Deref(s, p), LAMBDA top :
       Let(s.due[thread] < s.due[top], LAMBDA swap :
       Let(IF swap
           THEN [Store(s, p, thread) EXCEPT !.left[thread] = s.left[top],
                                            !.right[thread] = s.right[top],
                                            !.heap_index[thread] = index]
           ELSE s, LAMBDA s1 :
       Let(BitSet(target, bit), LAMBDA goRight :
         InsertWalk(s1, IF swap THEN top ELSE thread,
                    IF goRight THEN RightSlot(Deref(s1, p)) ELSE LeftSlot(Deref(s1, p)),
                    bit - 1, 2 * index + (IF goRight THEN 1 ELSE 0), target)))))

heap_insert(s, thread) ==
  IF ~Live(s) THEN [st |-> s, p |-> RootSlot]
  ELSE IF InsertBits(s.heap_index[thread]) = Diverges THEN [st |-> Hang(s), p |-> RootSlot]
  ELSE InsertWalk(s, thread, RootSlot, InsertBits(s.heap_index[thread]) - 2, 1,
                  s.heap_index[thread])

\* heap_delete's first for loop: the slot of the last heap element
RECURSIVE LastSlot(_, _, _)
LastSlot(s, p, bit) ==
  IF bit < 0 THEN p
  ELSE IF Deref(s, p) = NoThread THEN NULL
  ELSE LastSlot(s, IF BitSet(s.sleepq_size, bit) THEN RightSlot(Deref(s, p))
                   ELSE LeftSlot(Deref(s, p)),
                bit - 1)

\* the younger child of t in heap_delete's loop
Younger(s, t) ==
  IF s.right[t] = NoThread THEN s.left[t]
  ELSE IF s.due[s.left[t]] < s.due[s.right[t]] THEN s.left[t]
  ELSE s.right[t]

\* heap_delete's loop body when t->due > y->due: y moves up, t moves down
SwapDown(s, t, p, y) ==
  Let(Store(s, p, y), LAMBDA s1 :
    [s1 EXCEPT !.left[y] = IF y = s1.left[t] THEN t ELSE s1.left[t],
               !.right[y] = IF y = s1.left[t] THEN s1.right[t] ELSE t,
               !.left[t] = s.left[y], !.right[t] = s.right[y],
               !.heap_index[t] = s1.heap_index[y],
               !.heap_index[y] = s1.heap_index[t]])

\* heap_delete's "Reestablish the heap invariant" loop
RECURSIVE SiftDown(_, _, _, _)
SiftDown(s, t, p, fuel) ==
  IF s.left[t] = NoThread THEN s
  ELSE IF fuel = 0 THEN Hang(s)
  ELSE Let(Younger(s, t), LAMBDA y :
         IF s.due[t] > s.due[y]
         THEN SiftDown(SwapDown(s, t, p, y), t,
                       IF y = s.left[t] THEN LeftSlot(y) ELSE RightSlot(y), fuel - 1)
         ELSE s)

\* heap_delete after heap_insert(t) returned slot ins.p: t takes the children
\* of the deleted fiber and sinks to its place
DeleteFixup(ins, thread) ==
  IF ~Live(ins.st) THEN ins.st
  ELSE Let(Deref(ins.st, ins.p), LAMBDA t2 :
       Let(SiftDown([ins.st EXCEPT !.left[t2] = ins.st.left[thread],
                                   !.right[t2] = ins.st.right[thread]],
                    t2, ins.p, Cardinality(Threads)), LAMBDA s4 :
         IF ~Live(s4) THEN s4
         ELSE [s4 EXCEPT !.left[thread] = NoThread, !.right[thread] = NoThread]))

\* heap_delete from "t = *p; *p = NULL; --_ST_SLEEPQ_SIZE" on, p the last slot
DeleteAt(s, thread, p) ==
  IF p = NULL THEN Crash(s)
  ELSE Let(Deref(s, p), LAMBDA t :
       Let([Store(s, p, NoThread) EXCEPT !.sleepq_size = s.sleepq_size - 1], LAMBDA s1 :
         IF t = thread
         THEN [s1 EXCEPT !.left[thread] = NoThread, !.right[thread] = NoThread]
         ELSE IF t = NoThread THEN Crash(s1)
         ELSE DeleteFixup(heap_insert([s1 EXCEPT !.heap_index[t] = s1.heap_index[thread]], t),
                          thread)))

heap_delete(s, thread) ==
  IF ~Live(s) THEN s
  ELSE DeleteAt(s, thread, LastSlot(s, RootSlot, DeleteBits(s.sleepq_size) - 2))

\* _st_add_sleep_q; a timeout is added to last_clock
st_add_sleep_q(s, thread, timeout) ==
  IF ~Live(s) THEN s
  ELSE heap_insert([s EXCEPT !.due[thread] = s.last_clock + timeout,
                             !.flags[thread] = @ \cup {ST_FL_ON_SLEEPQ},
                             !.sleepq_size = @ + 1,
                             !.heap_index[thread] = s.sleepq_size + 1], thread).st

\* me->flags &= ~bit
ClearFlag(s, t, bit) == IF ~Live(s) THEN s ELSE [s EXCEPT !.flags[t] = @ \ {bit}]

\* _st_del_sleep_q
st_del_sleep_q(s, thread) == ClearFlag(heap_delete(s, thread), thread, ST_FL_ON_SLEEPQ)

(* ------------------------- event.c: epoll reactor --------------------- *)
\* a descriptor number that is never open; the kernel refuses to add a
\* descriptor that is not open (EBADF)
ClosedFd == 2
AllFds == Fds \cup {ClosedFd}
NoFdData == [rd |-> 0, wr |-> 0, ex |-> 0, revents |-> {}]
\* the read, write and priority counts of every descriptor
Refs(s) == [fd \in AllFds |-> <<s.fd_data[fd].rd, s.fd_data[fd].wr, s.fd_data[fd].ex>>]
NoRefs == [fd \in AllFds |-> <<0, 0, 0>>]
NotRegistered == [reg |-> FALSE, events |-> {}]

\* _ST_EPOLL_EVENTS(fd)
ST_EPOLL_EVENTS(s, fd) ==
  (IF s.fd_data[fd].rd # 0 THEN {POLLIN} ELSE {})
    \cup (IF s.fd_data[fd].wr # 0 THEN {POLLOUT} ELSE {})
    \cup (IF s.fd_data[fd].ex # 0 THEN {POLLPRI} ELSE {})

\* the kernel's epoll_ctl: [st, ok]
epoll_ctl(s, op, fd, events) ==
  IF op = "ADD"
  THEN IF fd \notin s.osfd_open \/ s.kreg[fd].reg THEN [st |-> s, ok |-> FALSE, eexist |-> s.kreg[fd].reg]
       ELSE [st |-> [s EXCEPT !.kreg[fd] = [reg |-> TRUE, events |-> events]], ok |-> TRUE,
             eexist |-> FALSE]
  ELSE IF ~s.kreg[fd].reg THEN [st |-> s, ok |-> FALSE, eexist |-> FALSE]
  ELSE IF op = "MOD"
  THEN [st |-> [s EXCEPT !.kreg[fd] = [reg |-> TRUE, events |-> events]], ok |-> TRUE,
        eexist |-> FALSE]
  ELSE [st |-> [s EXCEPT !.kreg[fd] = NotRegistered], ok |-> TRUE, eexist |-> FALSE]

\* the ref count changes of one pollfd entry, by +1 or -1
CountRefs(s, pd, by) ==
  [s EXCEPT !.fd_data[pd.fd] =
     [@ EXCEPT !.rd = IF POLLIN \in pd.events THEN @ + by ELSE @,
               !.wr = IF POLLOUT \in pd.events THEN @ + by ELSE @,
               !.ex = IF POLLPRI \in pd.events THEN @ + by ELSE @]]

\* a _st_epoll_pollset_del entry that forgets the registered-descriptor count
DelEntryKeepsCount(s, pd) ==
  Let(ST_EPOLL_EVENTS(s, pd.fd), LAMBDA old_events :
  Let(CountRefs(s, pd, -1), LAMBDA s1 :
  Let(ST_EPOLL_EVENTS(s1, pd.fd), LAMBDA events :
    IF events # old_events /\ s1.fd_data[pd.fd].revents = {}
    THEN epoll_ctl(s1, IF events # {} THEN "MOD" ELSE "DEL", pd.fd, events).st
    ELSE s1)))

\* _st_epoll_pollset_del, one entry: drop its references, then change or
\* remove the kernel registration unless revents are latched for the descriptor
PollsetDelEntry(s, pd) ==
  Let(ST_EPOLL_EVENTS(s, pd.fd), LAMBDA old_events :
  Let(CountRefs(s, pd, -1), LAMBDA s1 :
  Let(ST_EPOLL_EVENTS(s1, pd.fd), LAMBDA events :
    IF events # old_events /\ s1.fd_data[pd.fd].revents = {}
    THEN Let(epoll_ctl(s1, IF events # {} THEN "MOD" ELSE "DEL", pd.fd, events), LAMBDA k :
           IF k.ok /\ events = {} THEN [k.st EXCEPT !.evtlist_cnt = @ - 1] ELSE k.st)
    ELSE s1)))

\* _st_epoll_pollset_del: entries i..npds of pds
RECURSIVE st_epoll_pollset_del(_, _, _, _)
st_epoll_pollset_del(s, pds, i, npds) ==
  IF ~Live(s) \/ i > npds THEN s
  ELSE st_epoll_pollset_del(PollsetDelEntry(s, pds[i]), pds, i + 1, npds)

\* _st_epoll_pollset_add, the validation loop
ValidPds(pds) ==
  \A i \in 1..Len(pds) :
    pds[i].fd >= 0 /\ pds[i].events # {} /\ pds[i].events \subseteq {POLLIN, POLLOUT, POLLPRI}

\* _st_epoll_pollset_add, one entry of the second loop: [st, ok]
PollsetAddEntry(s, pd) ==
  Let(ST_EPOLL_EVENTS(s, pd.fd), LAMBDA old_events :
  Let(CountRefs(s, pd, 1), LAMBDA s1 :
  Let(ST_EPOLL_EVENTS(s1, pd.fd), LAMBDA events :
    IF events # old_events
    THEN Let(epoll_ctl(s1, IF old_events # {} THEN "MOD" ELSE "ADD", pd.fd, events), LAMBDA k :
           IF ~k.ok /\ (old_events # {} \/ ~k.eexist)
           THEN [st |-> s1, ok |-> FALSE]
           ELSE [st |-> IF old_events = {} THEN [k.st EXCEPT !.evtlist_cnt = @ + 1] ELSE k.st,
                 ok |-> TRUE])
    ELSE [st |-> s1, ok |-> TRUE])))

\* _st_epoll_pollset_add, the second loop from entry i on: [st, i] with i the
\* index the loop stopped at (Len(pds) + 1 when it ran to the end)
RECURSIVE PollsetAddLoop(_, _, _)
PollsetAddLoop(s, pds, i) ==
  IF i > Len(pds) THEN [st |-> s, i |-> i]
  ELSE Let(PollsetAddEntry(s, pds[i]), LAMBDA r :
         IF r.ok THEN PollsetAddLoop(r.st, pds, i + 1) ELSE [st |-> r.st, i |-> i])

\* a _st_epoll_pollset_add whose rollback leaves out the entry that failed
RollbackBeforeFailed(s, pds) ==
  IF ~ValidPds(pds) THEN [st |-> s, rv |-> -1, errno |-> EINVAL]
  ELSE Let(PollsetAddLoop(s, pds, 1), LAMBDA r :
         IF r.i <= Len(pds)
         THEN [st |-> st_epoll_pollset_del(r.st, pds, 1, r.i - 1), rv |-> -1,
               errno |-> EKERNEL]
         ELSE [st |-> r.st, rv |-> 0, errno |-> OK])

\* _st_epoll_pollset_add: [st, rv, errno]
st_epoll_pollset_add(s, pds) ==
  IF ~ValidPds(pds) THEN [st |-> s, rv |-> -1, errno |-> EINVAL]
  ELSE Let(PollsetAddLoop(s, pds, 1), LAMBDA r :
         IF r.i <= Len(pds)
         THEN \* rollback: entries 0..i of the array, i.e. i + 1 of them
              [st |-> st_epoll_pollset_del(r.st, pds, 1, r.i), rv |-> -1, errno |-> EKERNEL]
         ELSE [st |-> r.st, rv |-> 0, errno |-> OK])

\* _st_epoll_dispatch after fork: a fresh epoll handle, the table zeroed, and
\* the interests of every waiter on the I/O queue added again
RECURSIVE ReAddIoq(_, _, _)
ReAddIoq(s, q, fuel) ==
  IF q = IOQ \/ fuel = 0 \/ q[1] # "pq" THEN s
  ELSE ReAddIoq(st_epoll_pollset_add(s, s.pq[q[2]].pds).st, s.nxt[q], fuel - 1)

\* a fork handling that zeroes the table and does not add the waiters again
ForkForgetsWaiters(s) ==
  [s EXCEPT !.kreg = [fd \in AllFds |-> NotRegistered],
            !.fd_data = [fd \in AllFds |-> NoFdData],
            !.evtlist_cnt = 0]

DispatchFork(s) ==
  ReAddIoq([s EXCEPT !.kreg = [fd \in AllFds |-> NotRegistered],
                     !.fd_data = [fd \in AllFds |-> NoFdData],
                     !.evtlist_cnt = 0],
           s.nxt[IOQ], Cardinality(Threads) + 1)

\* _st_epoll_dispatch, first loop over the returned events: latch revents
LatchEvents(s, kev) ==
  [s EXCEPT !.fd_data = [fd \in AllFds |->
     IF kev[fd] = {} THEN s.fd_data[fd]
     ELSE [s.fd_data[fd] EXCEPT !.revents =
             IF kev[fd] \cap {POLLERR, POLLHUP} # {}
             THEN kev[fd] \cup ST_EPOLL_EVENTS(s, fd)
             ELSE kev[fd]]]]

\* an entry's revents that are not narrowed to the events the entry asks for
EntryReventsUnasked(s, pd) == s.fd_data[pd.fd].revents

\* the revents dispatch computes for one entry of a waiter's array
EntryRevents(s, pd) ==
  IF s.fd_data[pd.fd].revents = {} THEN {}
  ELSE (pd.events \cap s.fd_data[pd.fd].revents \cap {POLLIN, POLLOUT, POLLPRI})
         \cup (s.fd_data[pd.fd].revents \cap {POLLERR, POLLHUP})

\* _st_epoll_dispatch, "if (notify)": the waiter t leaves the I/O queue, its
\* interests are dropped, and it is made runnable
NotifyWaiter(s, q, t) ==
  Let(st_epoll_pollset_del([ST_REMOVE_LINK(s, q) EXCEPT !.pq[t].on_ioq = FALSE],
                           s.pq[t].pds, 1, Len(s.pq[t].pds)), LAMBDA s3 :
  Let(IF Live(s3) /\ ST_FL_ON_SLEEPQ \in s3.flags[t] THEN st_del_sleep_q(s3, t) ELSE s3,
      LAMBDA s4 :
    IF Live(s4) THEN ST_ADD_RUNQ([s4 EXCEPT !.state[t] = ST_ST_RUNNABLE], t) ELSE s4))

\* _st_epoll_dispatch, the inner loop: the revents of each entry of t's array
SetRevents(s, t) ==
  [s EXCEPT !.pq[t].pds =
     [i \in 1..Len(s.pq[t].pds) |->
        [s.pq[t].pds[i] EXCEPT !.revents = EntryRevents(s, s.pq[t].pds[i])]]]

\* _st_epoll_dispatch, the walk over the I/O queue from link q on
RECURSIVE DispatchIoq(_, _, _)
DispatchIoq(s, q, fuel) ==
  IF ~Live(s) \/ q = IOQ THEN s
  ELSE IF q[1] # "pq" THEN Crash(s)
  ELSE IF fuel = 0 THEN Hang(s)
  ELSE Let(SetRevents(s, q[2]), LAMBDA s1 :
       Let(IF \E i \in 1..Len(s1.pq[q[2]].pds) : s1.pq[q[2]].pds[i].revents # {}
           THEN NotifyWaiter(s1, q, q[2]) ELSE s1, LAMBDA after :
         IF Live(after) THEN DispatchIoq(after, after.nxt[q], fuel - 1) ELSE after))

\* a last loop of _st_epoll_dispatch that leaves the registration as it is
ReconcileOnlyClears(s, fd) == [s EXCEPT !.fd_data[fd].revents = {}]

\* _st_epoll_dispatch, last loop, one descriptor: clear its latched revents
\* and bring its kernel registration in line with the ref counts
ReconcileFd(s, fd) ==
  Let([s EXCEPT !.fd_data[fd].revents = {}], LAMBDA s1 :
  Let(ST_EPOLL_EVENTS(s1, fd), LAMBDA events :
  Let(epoll_ctl(s1, IF events # {} THEN "MOD" ELSE "DEL", fd, events), LAMBDA k :
    IF k.ok /\ events = {} THEN [k.st EXCEPT !.evtlist_cnt = @ - 1] ELSE k.st)))

\* _st_epoll_dispatch, last loop over the returned events
RECURSIVE Reconcile(_, _)
Reconcile(s, fds) ==
  IF ~Live(s) \/ fds = {} THEN s
  ELSE Let(CHOOSE f \in fds : \A g \in fds : f <= g, LAMBDA fd :
         Reconcile(ReconcileFd(s, fd), fds \ {fd}))

\* what epoll_wait may report: only registered descriptors, each with some of
\* its registered events, or with an error or hang-up
KernelEvents(s) ==
  {kev \in [AllFds -> {{}} \cup {{e} : e \in {POLLIN, POLLOUT, POLLPRI, POLLERR}}] :
     \A fd \in AllFds :
       /\ ~s.kreg[fd].reg => kev[fd] = {}
       /\ kev[fd] \subseteq s.kreg[fd].events \cup {POLLERR}}

\* _st_epoll_dispatch after epoll_wait returned the events kev
DispatchEvents(s, kev) ==
  IF \A fd \in AllFds : kev[fd] = {} THEN s
  ELSE Let(LatchEvents(s, kev), LAMBDA s1 :
         Reconcile(DispatchIoq(s1, s1.nxt[IOQ], Cardinality(Threads) + 1),
                   {fd \in AllFds : kev[fd] # {}}))

\* _st_epoll_dispatch; the kernel reports only descriptors that are registered
\* when epoll_wait is called
st_epoll_dispatch(s, forked, kev) ==
  Let(IF forked THEN DispatchFork(s) ELSE s, LAMBDA s0 :
    DispatchEvents(s0, [fd \in AllFds |-> IF s0.kreg[fd].reg THEN kev[fd] ELSE {}]))

(* ------------ event.c: the timeout of epoll_wait, bit for bit ---------- *)
\* an st_utime_t (unsigned long long, 64 bits) as four 16-bit digits, the
\* lowest first
U64(d3, d2, d1, d0) == <<d0, d1, d2, d3>>
Zero64 == U64(0, 0, 0, 0)

\* a + b on 64 unsigned bits: the carry out of the top digit is lost
RECURSIVE AddDigits(_, _, _, _)
AddDigits(a, b, i, carry) ==
  IF i > 4 THEN <<>>
  ELSE <<(a[i] + b[i] + carry) % 65536>>
         \o AddDigits(a, b, i + 1, (a[i] + b[i] + carry) \div 65536)
Add64(a, b) == AddDigits(a, b, 1, 0)

\* a - b on 64 unsigned bits
RECURSIVE SubDigits(_, _, _, _)
SubDigits(a, b, i, borrow) ==
  IF i > 4 THEN <<>>
  ELSE <<(a[i] - b[i] - borrow + 65536) % 65536>>
         \o SubDigits(a, b, i + 1, IF a[i] - b[i] - borrow < 0 THEN 1 ELSE 0)
Sub64(a, b) == SubDigits(a, b, 1, 0)

\* a <= b on 64 unsigned bits
RECURSIVE LeqDigits(_, _, _)
LeqDigits(a, b, i) ==
  IF i = 0 THEN TRUE
  ELSE IF a[i] # b[i] THEN a[i] < b[i] ELSE LeqDigits(a, b, i - 1)
Leq64(a, b) == LeqDigits(a, b, 4)

\* a / n on 64 unsigned bits, for a divisor n of at most 15 bits
RECURSIVE DivDigits(_, _, _, _)
DivDigits(a, n, i, rem) ==
  IF i = 0 THEN <<>>
  ELSE DivDigits(a, n, i - 1, (rem * 65536 + a[i]) % n) \o <<(rem * 65536 + a[i]) \div n>>
Div64(a, n) == DivDigits(a, n, 4, 0)

\* (int) a: the low 32 bits of a, read as two's complement
Int32(a) == IF a[2] >= 32768 THEN (a[2] - 65536) * 65536 + a[1] ELSE a[2] * 65536 + a[1]

\* a non-negative int as an st_utime_t
FromInt(n) == U64(0, 0, n \div 65536, n % 65536)

\* _st_epoll_dispatch: the timeout it hands to epoll_wait, from whether the
\* sleep heap has a root, the root's due and last_clock
EpollTimeout(queued, root_due, clock) ==
  IF ~queued THEN -1
  ELSE Int32(Div64(IF Leq64(root_due, clock) THEN Zero64 ELSE Sub64(root_due, clock), 1000))

\* before any timed call and any wait: clock 0, empty heap, no timeout computed
NoWait64 ==
  [last_clock |-> Zero64, queued |-> FALSE, due |-> Zero64, ticked |-> FALSE,
   waited |-> FALSE, timeout |-> 0]

(* --------------------- calls, returns, context switch ----------------- *)
NoMutex == -1
NoArg == [cvar |-> NoCond, lock |-> NoMutex, target |-> NoThread, timeout |-> ST_UTIME_NO_TIMEOUT]
NoRet == [thread |-> NoThread, call |-> "none", rv |-> 0, errno |-> OK]
NoPq == [pds |-> <<>>, on_ioq |-> FALSE]

\* _ST_CURRENT_THREAD()
Me(s) == s.this_thread

\* the current fiber enters a public call
Enter(s, call, a) ==
  [s EXCEPT !.pc[Me(s)] = call, !.arg[Me(s)] = a, !.ret = NoRet]

\* the call returns rv to the fiber's own code, with errno set on failure
Return(s, call, rv, errno) ==
  IF ~Live(s) THEN s
  ELSE [s EXCEPT !.pc[Me(s)] = "user", !.arg[Me(s)] = NoArg,
                 !.ret = [thread |-> Me(s), call |-> call, rv |-> rv, errno |-> errno]]

\* _ST_SWITCH_CONTEXT(me): control passes to _st_vp_schedule
ST_SWITCH_CONTEXT(s) == IF ~Live(s) THEN s ELSE [s EXCEPT !.mode = "sched"]

\* thread->state = st
SetState(s, thread, st) == IF ~Live(s) THEN s ELSE [s EXCEPT !.state[thread] = st]

(* ------------------------------ sched.c ------------------------------- *)
\* a struct pollfd before the call: revents is 0
Pd(fd, events) == [fd |-> fd, events |-> events, revents |-> {}]

\* st_poll from _ST_ADD_IOQ to _ST_SWITCH_CONTEXT
PollBlock(s, timeout) ==
  ST_SWITCH_CONTEXT(
    SetState(IF timeout # ST_UTIME_NO_TIMEOUT
             THEN st_add_sleep_q(ST_ADD_IOQ(s, Me(s)), Me(s), timeout)
             ELSE ST_ADD_IOQ(s, Me(s)),
             Me(s), ST_ST_IO_WAIT))

\* st_poll up to _ST_SWITCH_CONTEXT
st_poll(s0, pds, timeout) ==
  Let(Enter(s0, "st_poll", [NoArg EXCEPT !.timeout = timeout]), LAMBDA s :
    IF ST_FL_INTERRUPT \in s.flags[Me(s)]
    THEN Return(ClearFlag(s, Me(s), ST_FL_INTERRUPT), "st_poll", -1, EINTR)
    ELSE Let(st_epoll_pollset_add(s, pds), LAMBDA a :
           IF a.rv < 0 THEN Return(a.st, "st_poll", -1, a.errno)
           ELSE PollBlock([a.st EXCEPT !.pq[Me(s)] = [pds |-> pds, on_ioq |-> TRUE]],
                          timeout)))

\* st_poll's count n of triggered entries, "if (pd->events) n++"; st_poll
\* computes it when the waiter is off the I/O queue and does not return it
PollCount(pds) == Cardinality({i \in 1..Len(pds) : pds[i].events # {}})

\* st_poll returns: its _st_pollq_t was a local variable and is gone
PollReturn(s, rv, errno) ==
  IF ~Live(s) THEN s
  ELSE Return([s EXCEPT !.pq[Me(s)] = NoPq,
                        !.nxt[PqLinks(Me(s))] = NULL, !.prv[PqLinks(Me(s))] = NULL],
              "st_poll", rv, errno)

\* an st_poll that, resumed while still on the I/O queue, drops its
\* references and leaves its _st_pollq_t linked
PollResumeStaysQueued(s) ==
  Let(IF s.pq[Me(s)].on_ioq
      THEN st_epoll_pollset_del(s, s.pq[Me(s)].pds, 1, Len(s.pq[Me(s)].pds))
      ELSE s, LAMBDA s1 :
    IF ST_FL_INTERRUPT \in s1.flags[Me(s)]
    THEN PollReturn(ClearFlag(s1, Me(s), ST_FL_INTERRUPT), -1, EINTR)
    ELSE PollReturn(s1, 0, OK))

\* an st_poll that, resumed while still on the I/O queue, unlinks its
\* _st_pollq_t and leaves its references in the descriptor table
PollResumeKeepsRefs(s) ==
  Let(IF s.pq[Me(s)].on_ioq THEN ST_DEL_IOQ(s, Me(s)) ELSE s, LAMBDA s1 :
    IF ST_FL_INTERRUPT \in s1.flags[Me(s)]
    THEN PollReturn(ClearFlag(s1, Me(s), ST_FL_INTERRUPT), -1, EINTR)
    ELSE PollReturn(s1, 0, OK))

\* st_poll after it is resumed: "return 0" whatever n is
st_poll_resume(s) ==
  Let(IF s.pq[Me(s)].on_ioq
      THEN st_epoll_pollset_del(ST_DEL_IOQ(s, Me(s)), s.pq[Me(s)].pds, 1,
                                Len(s.pq[Me(s)].pds))
      ELSE s, LAMBDA s1 :
    IF ST_FL_INTERRUPT \in s1.flags[Me(s)]
    THEN PollReturn(ClearFlag(s1, Me(s), ST_FL_INTERRUPT), -1, EINTR)
    ELSE PollReturn(s1, 0, OK))

(* -------------------------------- io.c -------------------------------- *)
\* _st_epoll_fd_close: refused while a count of the descriptor is not zero
st_epoll_fd_close(s, osfd) ==
  IF s.fd_data[osfd].rd # 0 \/ s.fd_data[osfd].wr # 0 \/ s.fd_data[osfd].ex # 0
  THEN [rv |-> -1, errno |-> EBUSY]
  ELSE [rv |-> 0, errno |-> OK]

\* a st_netfd_close that does not ask the event system
NetfdCloseUnasked(s0, fd) ==
  Return([Enter(s0, "st_netfd_close", NoArg)
            EXCEPT !.osfd_open = @ \ {fd}, !.kreg[fd] = NotRegistered],
         "st_netfd_close", 0, OK)

\* st_netfd_close of the open descriptor fd: close() takes the descriptor
\* out of the process and out of the kernel's interest list
st_netfd_close(s0, fd) ==
  Let(Enter(s0, "st_netfd_close", NoArg), LAMBDA s :
    IF st_epoll_fd_close(s, fd).rv < 0
    THEN Return(s, "st_netfd_close", -1, st_epoll_fd_close(s, fd).errno)
    ELSE Return([s EXCEPT !.osfd_open = @ \ {fd}, !.kreg[fd] = NotRegistered],
                "st_netfd_close", 0, OK))

\* st_netfd_poll once its st_poll has returned (s.ret holds n and errno),
\* with the revents st_poll left in pd
NetfdPollReturn(s, revents) ==
  IF ~Live(s) THEN s
  ELSE IF s.ret.rv < 0 THEN [s EXCEPT !.ret.call = "st_netfd_poll"]
  ELSE IF s.ret.rv = 0
  THEN [s EXCEPT !.ret = [thread |-> Me(s), call |-> "st_netfd_poll", rv |-> -1,
                          errno |-> ETIME]]
  ELSE IF POLLNVAL \in revents
  THEN [s EXCEPT !.ret = [thread |-> Me(s), call |-> "st_netfd_poll", rv |-> -1,
                          errno |-> EBADF]]
  ELSE [s EXCEPT !.ret = [thread |-> Me(s), call |-> "st_netfd_poll", rv |-> 0,
                          errno |-> OK]]

\* st_netfd_poll up to the _ST_SWITCH_CONTEXT of its st_poll
st_netfd_poll(s0, fd, how, timeout) ==
  Let(st_poll(s0, <<Pd(fd, {how})>>, timeout), LAMBDA s :
    IF s.pc[Me(s0)] = "st_poll" THEN [s EXCEPT !.pc[Me(s0)] = "st_netfd_poll"]
    ELSE NetfdPollReturn(s, {}))

\* st_netfd_poll after its st_poll is resumed
st_netfd_poll_resume(s) ==
  NetfdPollReturn(st_poll_resume(s), s.pq[Me(s)].pds[1].revents)

(* ------------------------- sched.c: scheduler -------------------------- *)
\* _st_vp_schedule: assert(thread->state == _ST_ST_RUNNABLE), then the fiber
\* is marked running and its context restored
Restore(s, thread) ==
  IF ~Live(s) THEN s
  ELSE IF s.state[thread] # ST_ST_RUNNABLE THEN Abort(s)
  ELSE [s EXCEPT !.state[thread] = ST_ST_RUNNING, !.this_thread = thread, !.mode = "run"]

\* _st_vp_schedule: one turn of the loop, up to _ST_RESTORE_CONTEXT
st_vp_schedule(s) ==
  IF s.active_count = 0 THEN [s EXCEPT !.mode = "exit"]
  ELSE IF ST_CLIST_IS_EMPTY(s, RUNQ) THEN Restore(s, IdleThread)
  ELSE IF s.nxt[RUNQ][1] # "links" THEN Crash(s)
  ELSE Restore(ST_DEL_RUNQ(s, s.nxt[RUNQ][2]), s.nxt[RUNQ][2])

\* an _st_stack_free that forgets the stack
StackLeaked(s, t) == s

\* _st_stack_free: ST_APPEND_LINK(&ts->links, _st_free_stacks.prev) links the
\* stack before the last element of the free list
st_stack_free(s, t) ==
  [s EXCEPT !.free_stacks =
     IF @ = <<>> THEN <<t>>
     ELSE SubSeq(@, 1, Len(@) - 1) \o <<t, @[Len(@)]>>]

\* st_thread_interrupt that wakes whatever fiber is not a zombie
InterruptAlwaysWakes(s, thread) ==
  IF s.state[thread] = ST_ST_ZOMBIE THEN s
  ELSE ST_ADD_RUNQ(SetState([s EXCEPT !.flags[thread] = @ \cup {ST_FL_INTERRUPT}],
                            thread, ST_ST_RUNNABLE), thread)

\* st_thread_interrupt on a fiber that is neither zombie, runnable nor running
InterruptBlocked(s, thread) ==
  ST_ADD_RUNQ(SetState(IF ST_FL_ON_SLEEPQ \in s.flags[thread]
                       THEN st_del_sleep_q(s, thread) ELSE s,
                       thread, ST_ST_RUNNABLE), thread)

\* the body of st_thread_interrupt
Interrupt(s, thread) ==
  IF s.state[thread] = ST_ST_ZOMBIE THEN s
  ELSE IF s.state[thread] \in {ST_ST_RUNNABLE, ST_ST_RUNNING}
  THEN [s EXCEPT !.flags[thread] = @ \cup {ST_FL_INTERRUPT}]
  ELSE InterruptBlocked([s EXCEPT !.flags[thread] = @ \cup {ST_FL_INTERRUPT}], thread)

st_thread_interrupt(s, thread) ==
  Return(Interrupt(Enter(s, "st_thread_interrupt", [NoArg EXCEPT !.target = thread]), thread),
         "st_thread_interrupt", 0, OK)

\* the fiber st_thread_create builds: _st_stack_new takes the first stack of
\* the free list (all stacks have the default size), else maps a new one
NewThread(s) ==
  IF s.free_stacks # <<>> THEN Head(s.free_stacks)
  ELSE IF \E t \in Created : s.pc[t] = "none"
  THEN CHOOSE t \in Created : s.pc[t] = "none" /\ \A u \in Created : s.pc[u] = "none" => t <= u
  ELSE NoThread

\* st_thread_create from memset on, for the fiber that owns the new stack
CreateAt(s, thread) ==
  ST_ADD_RUNQ([s EXCEPT !.free_stacks = IF @ # <<>> THEN Tail(@) ELSE @,
                        \* memset(thread, 0, sizeof(_st_thread_t))
                        !.flags[thread] = {}, !.term[thread] = NoCond, !.retval[thread] = 0,
                        !.nxt[Links(thread)] = NULL, !.prv[Links(thread)] = NULL,
                        !.nxt[WaitLinks(thread)] = NULL, !.prv[WaitLinks(thread)] = NULL,
                        !.left[thread] = NoThread, !.right[thread] = NoThread,
                        !.heap_index[thread] = 0, !.due[thread] = 0,
                        !.pc[thread] = "user", !.arg[thread] = NoArg, !.pq[thread] = NoPq,
                        !.state[thread] = ST_ST_RUNNABLE,
                        !.active_count = @ + 1], thread)

\* st_thread_create: the joinable argument is never read
st_thread_create(s, joinable) ==
  Return(CreateAt(Enter(s, "st_thread_create", NoArg), NewThread(s)),
         "st_thread_create", NewThread(s), OK)

(* ------------------------------- sync.c ------------------------------- *)
\* _ST_THREAD_WAITQ_PTR(q): the fiber whose wait_links is q
ST_THREAD_WAITQ_PTR(q) == q[2]

\* st_usleep up to _ST_SWITCH_CONTEXT
st_usleep(s0, usecs) ==
  Let(Enter(s0, "st_usleep", [NoArg EXCEPT !.timeout = usecs]), LAMBDA s :
    IF ST_FL_INTERRUPT \in s.flags[Me(s)] THEN Return(s, "st_usleep", -1, EINTR)
    ELSE IF usecs # ST_UTIME_NO_TIMEOUT
    THEN ST_SWITCH_CONTEXT(st_add_sleep_q(SetState(s, Me(s), ST_ST_SLEEPING), Me(s), usecs))
    ELSE ST_SWITCH_CONTEXT(SetState(s, Me(s), ST_ST_SUSPENDED)))

\* st_usleep after it is resumed
st_usleep_resume(s) ==
  IF ST_FL_INTERRUPT \in s.flags[Me(s)]
  THEN Return(ClearFlag(s, Me(s), ST_FL_INTERRUPT), "st_usleep", -1, EINTR)
  ELSE Return(s, "st_usleep", 0, OK)

\* st_cond_timedwait from "me->state = _ST_ST_COND_WAIT" to _ST_SWITCH_CONTEXT
CondBlock(s, cvar, timeout) ==
  ST_SWITCH_CONTEXT(
    IF timeout # ST_UTIME_NO_TIMEOUT
    THEN st_add_sleep_q(ST_APPEND_LINK(SetState(s, Me(s), ST_ST_COND_WAIT),
                                       WaitLinks(Me(s)), CondQ(cvar)), Me(s), timeout)
    ELSE ST_APPEND_LINK(SetState(s, Me(s), ST_ST_COND_WAIT), WaitLinks(Me(s)), CondQ(cvar)))

\* st_cond_timedwait up to _ST_SWITCH_CONTEXT; blocked is FALSE when the call
\* returned at once
CondWaitEnter(s, cvar, timeout) ==
  IF ST_FL_INTERRUPT \in s.flags[Me(s)]
  THEN [st |-> s, blocked |-> FALSE, rv |-> -1, errno |-> EINTR]
  ELSE [st |-> CondBlock(s, cvar, timeout), blocked |-> TRUE, rv |-> 0, errno |-> OK]

\* the errno st_cond_timedwait leaves when it is resumed with the given flags:
\* the timeout test comes after the interrupt test and overwrites its errno
CondWaitErrno(fl) ==
  IF ST_FL_TIMEDOUT \in fl THEN ETIME
  ELSE IF ST_FL_INTERRUPT \in fl THEN EINTR
  ELSE OK

\* st_cond_timedwait after it is resumed: only the interrupt flag is cleared
CondWaitResume(s) ==
  [st |-> ClearFlag(ST_REMOVE_LINK(s, WaitLinks(Me(s))), Me(s), ST_FL_INTERRUPT),
   rv |-> IF CondWaitErrno(s.flags[Me(s)]) = OK THEN 0 ELSE -1,
   errno |-> CondWaitErrno(s.flags[Me(s)])]

st_cond_timedwait(s0, cvar, timeout) ==
  Let(CondWaitEnter(Enter(s0, "st_cond_timedwait",
                          [NoArg EXCEPT !.cvar = cvar, !.timeout = timeout]), cvar, timeout),
      LAMBDA r :
    IF r.blocked THEN r.st ELSE Return(r.st, "st_cond_timedwait", r.rv, r.errno))

st_cond_timedwait_resume(s) ==
  Let(CondWaitResume(s), LAMBDA r : Return(r.st, "st_cond_timedwait", r.rv, r.errno))

\* the body of the loop of _st_cond_signal: the waiter reached is made
\* runnable and queued whatever its state
WakeWaiter(s, thread) ==
  ST_ADD_RUNQ(SetState(IF s.state[thread] = ST_ST_COND_WAIT
                       THEN st_del_sleep_q(s, thread) ELSE s,
                       thread, ST_ST_RUNNABLE), thread)

\* the loop of _st_cond_signal, from list position q
RECURSIVE CondSignalLoop(_, _, _, _, _)
CondSignalLoop(s, cvar, broadcast, q, fuel) ==
  IF ~Live(s) \/ q = CondQ(cvar) THEN s
  ELSE IF q[1] # "wait_links" THEN Crash(s)
  ELSE IF fuel = 0 THEN Hang(s)
  ELSE Let(WakeWaiter(s, ST_THREAD_WAITQ_PTR(q)), LAMBDA s2 :
         IF ~Live(s2) \/ ~broadcast THEN s2
         ELSE CondSignalLoop(s2, cvar, broadcast, s2.nxt[q], fuel - 1))

st_cond_signal_(s, cvar, broadcast) ==
  CondSignalLoop(s, cvar, broadcast, s.nxt[CondQ(cvar)], Cardinality(Threads) + 1)

st_cond_signal(s, cvar) ==
  Return(st_cond_signal_(Enter(s, "st_cond_signal", [NoArg EXCEPT !.cvar = cvar]), cvar, FALSE),
         "st_cond_signal", 0, OK)

st_cond_broadcast(s, cvar) ==
  Return(st_cond_signal_(Enter(s, "st_cond_broadcast", [NoArg EXCEPT !.cvar = cvar]), cvar, TRUE),
         "st_cond_broadcast", 0, OK)

\* an st_mutex_lock without the test for the caller being the owner: the
\* owner waits for itself
LockWaitsForItself(s0, lock) ==
  Let(Enter(s0, "st_mutex_lock", [NoArg EXCEPT !.lock = lock]), LAMBDA s :
    IF ST_FL_INTERRUPT \in s.flags[Me(s)] THEN Return(s, "st_mutex_lock", -1, EINTR)
    ELSE IF s.owner[lock] = NoThread
    THEN Return([s EXCEPT !.owner[lock] = Me(s)], "st_mutex_lock", 0, OK)
    ELSE ST_SWITCH_CONTEXT(ST_APPEND_LINK(SetState(s, Me(s), ST_ST_LOCK_WAIT),
                                          WaitLinks(Me(s)), MutexQ(lock))))

\* st_mutex_lock up to _ST_SWITCH_CONTEXT
st_mutex_lock(s0, lock) ==
  Let(Enter(s0, "st_mutex_lock", [NoArg EXCEPT !.lock = lock]), LAMBDA s :
    IF ST_FL_INTERRUPT \in s.flags[Me(s)] THEN Return(s, "st_mutex_lock", -1, EINTR)
    ELSE IF s.owner[lock] = NoThread
    THEN Return([s EXCEPT !.owner[lock] = Me(s)], "st_mutex_lock", 0, OK)
    ELSE IF s.owner[lock] = Me(s) THEN Return(s, "st_mutex_lock", -1, EDEADLK)
    ELSE ST_SWITCH_CONTEXT(ST_APPEND_LINK(SetState(s, Me(s), ST_ST_LOCK_WAIT),
                                          WaitLinks(Me(s)), MutexQ(lock))))

\* a resumed st_mutex_lock that fails whenever its caller was interrupted
LockResumeInterruptWins(s) ==
  Let(ST_REMOVE_LINK(s, WaitLinks(Me(s))), LAMBDA s1 :
    IF ST_FL_INTERRUPT \in s1.flags[Me(s)]
    THEN Return(ClearFlag(s1, Me(s), ST_FL_INTERRUPT), "st_mutex_lock", -1, EINTR)
    ELSE Return(s1, "st_mutex_lock", 0, OK))

\* a resumed st_mutex_lock that leaves its caller on the wait list
LockResumeStaysLinked(s) ==
  IF ST_FL_INTERRUPT \in s.flags[Me(s)] /\ s.owner[s.arg[Me(s)].lock] # Me(s)
  THEN Return(ClearFlag(s, Me(s), ST_FL_INTERRUPT), "st_mutex_lock", -1, EINTR)
  ELSE Return(s, "st_mutex_lock", 0, OK)

\* st_mutex_lock after it is resumed
st_mutex_lock_resume(s) ==
  Let(ST_REMOVE_LINK(s, WaitLinks(Me(s))), LAMBDA s1 :
    IF ST_FL_INTERRUPT \in s1.flags[Me(s)] /\ s1.owner[s.arg[Me(s)].lock] # Me(s)
    THEN Return(ClearFlag(s1, Me(s), ST_FL_INTERRUPT), "st_mutex_lock", -1, EINTR)
    ELSE Return(s1, "st_mutex_lock", 0, OK))

\* a hand-off that takes the first fiber on the wait list whatever its state
UnlockFirstOnList(s, lock, q, fuel) ==
  IF q = MutexQ(lock) THEN [s EXCEPT !.owner[lock] = NoThread]
  ELSE IF q[1] # "wait_links" THEN Crash(s)
  ELSE ST_ADD_RUNQ([s EXCEPT !.owner[lock] = ST_THREAD_WAITQ_PTR(q),
                             !.state[ST_THREAD_WAITQ_PTR(q)] = ST_ST_RUNNABLE],
                   ST_THREAD_WAITQ_PTR(q))

\* the hand-off loop of st_mutex_unlock, from list position q
RECURSIVE UnlockLoop(_, _, _, _)
UnlockLoop(s, lock, q, fuel) ==
  IF q = MutexQ(lock) THEN [s EXCEPT !.owner[lock] = NoThread]
  ELSE IF q[1] # "wait_links" THEN Crash(s)
  ELSE IF fuel = 0 THEN Hang(s)
  ELSE IF s.state[ST_THREAD_WAITQ_PTR(q)] = ST_ST_LOCK_WAIT
  THEN ST_ADD_RUNQ([s EXCEPT !.owner[lock] = ST_THREAD_WAITQ_PTR(q),
                             !.state[ST_THREAD_WAITQ_PTR(q)] = ST_ST_RUNNABLE],
                   ST_THREAD_WAITQ_PTR(q))
  ELSE UnlockLoop(s, lock, s.nxt[q], fuel - 1)

st_mutex_unlock(s0, lock) ==
  Let(Enter(s0, "st_mutex_unlock", [NoArg EXCEPT !.lock = lock]), LAMBDA s :
    IF s.owner[lock] # Me(s) THEN Return(s, "st_mutex_unlock", -1, EPERM)
    ELSE Return(UnlockLoop(s, lock, s.nxt[MutexQ(lock)], Cardinality(Threads) + 1),
                "st_mutex_unlock", 0, OK))

\* an st_mutex_trylock that takes the mutex whether it is held or not
TrylockTakesHeld(s0, lock) ==
  Return([Enter(s0, "st_mutex_trylock", [NoArg EXCEPT !.lock = lock])
            EXCEPT !.owner[lock] = Me(s0)], "st_mutex_trylock", 0, OK)

st_mutex_trylock(s0, lock) ==
  Let(Enter(s0, "st_mutex_trylock", [NoArg EXCEPT !.lock = lock]), LAMBDA s :
    IF s.owner[lock] # NoThread THEN Return(s, "st_mutex_trylock", -1, EBUSY)
    ELSE Return([s EXCEPT !.owner[lock] = Me(s)], "st_mutex_trylock", 0, OK))

(* ----------------------- sched.c: exit and join ------------------------ *)
\* st_cond_destroy: a condition variable with waiters is left alone (EBUSY);
\* freeing one changes nothing the fibers can see
st_cond_destroy(s, cvar) == s

\* the tail of st_thread_exit: free the stack, switch away for good
ExitTail(s) ==
  IF ~Live(s) THEN s
  ELSE ST_SWITCH_CONTEXT(
         [(IF ST_FL_PRIMORDIAL \notin s.flags[Me(s)] THEN st_stack_free(s, Me(s)) ELSE s)
            EXCEPT !.pc[Me(s)] = "exited"])

\* st_thread_exit of a joinable fiber, up to its first _ST_SWITCH_CONTEXT
ExitZombie(s) ==
  ST_SWITCH_CONTEXT(
    st_cond_signal_(ST_ADD_ZOMBIEQ(SetState(s, Me(s), ST_ST_ZOMBIE), Me(s)),
                    s.term[Me(s)], FALSE))

\* st_thread_exit up to its first _ST_SWITCH_CONTEXT
st_thread_exit(s0, rv) ==
  Let([Enter(s0, "st_thread_exit", NoArg) EXCEPT !.retval[Me(s0)] = rv,
                                                 !.active_count = @ - 1], LAMBDA s1 :
    IF s1.term[Me(s1)] # NoCond THEN ExitZombie(s1) ELSE ExitTail(s1))

\* st_thread_exit of a joinable fiber after the joiner has requeued it
st_thread_exit_resume(s) ==
  ExitTail([st_cond_destroy(s, s.term[Me(s)]) EXCEPT !.term[Me(s)] = NoCond])

\* st_thread_join once the target is a zombie: the target is queued to run
\* before it is taken off the zombie queue
JoinFinish(s, thread) ==
  Return(ST_DEL_ZOMBIEQ(ST_ADD_RUNQ(SetState(s, thread, ST_ST_RUNNABLE), thread), thread),
         "st_thread_join", 0, OK)

\* st_thread_join from the test of the target's state on
JoinWait(s, thread, cv) ==
  IF s.state[thread] = ST_ST_ZOMBIE THEN JoinFinish(s, thread)
  ELSE Let(CondWaitEnter(s, cv, ST_UTIME_NO_TIMEOUT), LAMBDA r :
         IF r.blocked THEN r.st ELSE Return(r.st, "st_thread_join", -1, r.errno))

\* an st_thread_join that tests for the caller joining itself first
JoinTestsSelfFirst(s0, thread) ==
  Let(Enter(s0, "st_thread_join", [NoArg EXCEPT !.target = thread, !.cvar = s0.term[thread]]),
      LAMBDA s :
    IF Me(s) = thread THEN Return(s, "st_thread_join", -1, EDEADLK)
    ELSE IF s.term[thread] = NoCond THEN Return(s, "st_thread_join", -1, EINVAL)
    ELSE IF ~ST_CLIST_IS_EMPTY(s, CondQ(s.term[thread]))
    THEN Return(s, "st_thread_join", -1, EINVAL)
    ELSE JoinWait(s, thread, s.term[thread]))

\* st_thread_join up to _ST_SWITCH_CONTEXT
st_thread_join(s0, thread) ==
  Let(Enter(s0, "st_thread_join", [NoArg EXCEPT !.target = thread, !.cvar = s0.term[thread]]),
      LAMBDA s :
    IF s.term[thread] = NoCond THEN Return(s, "st_thread_join", -1, EINVAL)
    ELSE IF Me(s) = thread THEN Return(s, "st_thread_join", -1, EDEADLK)
    ELSE IF ~ST_CLIST_IS_EMPTY(s, CondQ(s.term[thread]))
    THEN Return(s, "st_thread_join", -1, EINVAL)
    ELSE JoinWait(s, thread, s.term[thread]))

\* st_thread_join after st_cond_wait is resumed
st_thread_join_resume(s) ==
  Let(CondWaitResume(s), LAMBDA r :
    IF ~Live(r.st) THEN r.st
    ELSE IF r.rv # 0 THEN Return(r.st, "st_thread_join", -1, r.errno)
    ELSE JoinWait(r.st, s.arg[Me(s)].target, s.arg[Me(s)].cvar))

(* ------------------- sched.c: clock and idle fiber -------------------- *)
\* the body of the loop of _st_vp_check_clock for an expired fiber
Expire(s, thread) ==
  Let(st_del_sleep_q(s, thread), LAMBDA s1 :
    IF ~Live(s1) THEN s1
    ELSE IF ST_FL_IDLE_THREAD \in s1.flags[thread] THEN Abort(s1)
    ELSE ST_ADD_RUNQ([s1 EXCEPT !.flags[thread] =
                                   IF s1.state[thread] = ST_ST_COND_WAIT
                                   THEN @ \cup {ST_FL_TIMEDOUT} ELSE @,
                                !.state[thread] = ST_ST_RUNNABLE], thread))

\* the loop of _st_vp_check_clock
RECURSIVE CheckClockLoop(_, _)
CheckClockLoop(s, fuel) ==
  IF ~Live(s) \/ s.sleep_q = NoThread THEN s
  ELSE IF fuel = 0 THEN Hang(s)
  ELSE IF ST_FL_ON_SLEEPQ \notin s.flags[s.sleep_q] THEN Abort(s)
  ELSE IF s.due[s.sleep_q] > s.now THEN s
  ELSE CheckClockLoop(Expire(s, s.sleep_q), fuel - 1)

\* _st_vp_check_clock, with t what st_utime() returns
st_vp_check_clock(s, t) ==
  IF ~Live(s) THEN s
  ELSE CheckClockLoop([s EXCEPT !.now = t, !.last_clock = t], Cardinality(Threads) + 1)

\* one turn of the for (;;) loop of _st_idle_thread_start; the loop has no
\* context switch, so the next turn follows at once
st_idle_thread_start(s, forked, kev, t) ==
  ST_ADD_RUNQ(SetState(st_vp_check_clock(st_epoll_dispatch(s, forked, kev), t),
                       Me(s), ST_ST_RUNNABLE), Me(s))

\* where a fiber that _st_vp_schedule restored goes on: in the call it was
\* suspended in, or at the start of its function
Resume(s) ==
  IF s.mode # "run" THEN s
  ELSE IF s.pc[Me(s)] = "st_poll" THEN st_poll_resume(s)
  ELSE IF s.pc[Me(s)] = "st_netfd_poll" THEN st_netfd_poll_resume(s)
  ELSE IF s.pc[Me(s)] = "st_usleep" THEN st_usleep_resume(s)
  ELSE IF s.pc[Me(s)] = "st_cond_timedwait" THEN st_cond_timedwait_resume(s)
  ELSE IF s.pc[Me(s)] = "st_mutex_lock" THEN st_mutex_lock_resume(s)
  ELSE IF s.pc[Me(s)] = "st_thread_join" THEN st_thread_join_resume(s)
  ELSE IF s.pc[Me(s)] = "st_thread_exit" THEN st_thread_exit_resume(s)
  ELSE IF s.pc[Me(s)] = "exited" THEN Abort(s)   \* assert(0) at the end of st_thread_exit
  ELSE s

(* --------------------------- the state machine ------------------------ *)
\* the state field of a fiber that was never created
NoState == "NONE"

\* the pollfd arrays the fibers pass to st_poll
PollSets ==
  { <<Pd(0, {POLLIN}), Pd(1, {POLLOUT})>>,
    <<Pd(1, {POLLOUT}), Pd(ClosedFd, {POLLIN})>>,
    <<Pd(-1, {POLLIN})>> }

\* the values fibers exit with
RetVals == {7}

\* the state st_init leaves: empty queues, the idle fiber created and taken
\* off the run queue again, the primordial fiber running
Start ==
  [state |-> [t \in Threads |-> IF t = Primordial THEN ST_ST_RUNNING
                                   ELSE IF t = IdleThread THEN ST_ST_RUNNABLE ELSE NoState],
   flags |-> [t \in Threads |-> IF t = Primordial THEN {ST_FL_PRIMORDIAL}
                                   ELSE IF t = IdleThread THEN {ST_FL_IDLE_THREAD} ELSE {}],
   term |-> [t \in Threads |-> NoCond],
   retval |-> [t \in Threads |-> 0],
   nxt |-> [n \in Nodes |-> IF n \in Heads THEN n
                               ELSE IF n = Links(IdleThread) THEN RUNQ ELSE NULL],
   prv |-> [n \in Nodes |-> IF n \in Heads THEN n
                               ELSE IF n = Links(IdleThread) THEN RUNQ ELSE NULL],
   sleep_q |-> NoThread,
   sleepq_size |-> 0,
   left |-> [t \in Threads |-> NoThread],
   right |-> [t \in Threads |-> NoThread],
   heap_index |-> [t \in Threads |-> 0],
   due |-> [t \in Threads |-> 0],
   last_clock |-> 0,
   now |-> 0,
   active_count |-> 1,
   this_thread |-> Primordial,
   owner |-> [m \in Mutexes |-> NoThread],
   fd_data |-> [fd \in AllFds |-> NoFdData],
   kreg |-> [fd \in AllFds |-> NotRegistered],
   osfd_open |-> Fds,
   evtlist_cnt |-> 0,
   pq |-> [t \in Threads |-> NoPq],
   pc |-> [t \in Threads |-> IF t = Primordial THEN "user"
                                ELSE IF t = IdleThread THEN "idle" ELSE "none"],
   arg |-> [t \in Threads |-> NoArg],
   ret |-> NoRet,
   free_stacks |-> <<>>,
   refs_at_call |-> [t \in Threads |-> NoRefs],
   wait64 |-> NoWait64,
   mode |-> "run"]

\* the variables hold the state s
Holds(s) ==
  /\ state = s.state /\ flags = s.flags /\ term = s.term /\ retval = s.retval
  /\ nxt = s.nxt /\ prv = s.prv /\ sleep_q = s.sleep_q
  /\ sleepq_size = s.sleepq_size /\ left = s.left /\ right = s.right
  /\ heap_index = s.heap_index /\ due = s.due /\ last_clock = s.last_clock
  /\ now = s.now /\ active_count = s.active_count /\ this_thread = s.this_thread
  /\ owner = s.owner /\ fd_data = s.fd_data /\ kreg = s.kreg
  /\ osfd_open = s.osfd_open
  /\ evtlist_cnt = s.evtlist_cnt /\ pq = s.pq /\ pc = s.pc /\ arg = s.arg
  /\ ret = s.ret /\ free_stacks = s.free_stacks
  /\ refs_at_call = s.refs_at_call /\ wait64 = s.wait64 /\ mode = s.mode

Init == Holds(Start)

\* the running fiber executes its own code and may call the library
UserRuns == mode = "run" /\ pc[this_thread] = "user"

\* the fibers a caller can hold a handle to
Handles == {t \in Threads \ {IdleThread} : pc[t] \notin {"none", "exited"}}

ThreadCreate ==
  /\ UserRuns
  /\ NewThread(Cur) # NoThread
  /\ free_stacks # <<>> \/ Cardinality({t \in Created : pc[t] # "none"}) < MaxCreated
  /\ \E joinable \in BOOLEAN : Commit(st_thread_create(Cur, joinable))

ThreadExit == UserRuns /\ \E rv \in RetVals : Commit(st_thread_exit(Cur, rv))

ThreadJoin == UserRuns /\ \E t \in Handles : Commit(st_thread_join(Cur, t))

ThreadInterrupt == UserRuns /\ \E t \in Handles : Commit(st_thread_interrupt(Cur, t))

Poll == UserRuns /\ \E pds \in PollSets, tmo \in Timeouts : Commit(st_poll(Cur, pds, tmo))

Usleep == UserRuns /\ \E usecs \in Timeouts : Commit(st_usleep(Cur, usecs))

CondTimedwait ==
  UserRuns /\ \E c \in UserConds, tmo \in Timeouts : Commit(st_cond_timedwait(Cur, c, tmo))

CondSignal == UserRuns /\ \E c \in UserConds : Commit(st_cond_signal(Cur, c))

CondBroadcast == UserRuns /\ \E c \in UserConds : Commit(st_cond_broadcast(Cur, c))

MutexLock == UserRuns /\ \E m \in Mutexes : Commit(st_mutex_lock(Cur, m))

MutexUnlock == UserRuns /\ \E m \in Mutexes : Commit(st_mutex_unlock(Cur, m))

MutexTrylock == UserRuns /\ \E m \in Mutexes : Commit(st_mutex_trylock(Cur, m))

\* _st_vp_schedule picks the next fiber, which goes on to the end of the call
\* it was suspended in
Schedule == mode = "sched" /\ Commit(Resume(st_vp_schedule(Cur)))

\* the idle fiber runs one turn of its loop
IdleLoop ==
  /\ mode = "run" /\ pc[this_thread] = "idle"
  /\ \E forked \in BOOLEAN, kev \in KernelEvents(Cur), t \in last_clock..MaxClock :
       Commit(st_idle_thread_start(Cur, forked, kev, t))

Next ==
  \/ ThreadCreate \/ ThreadExit \/ ThreadJoin \/ ThreadInterrupt
  \/ Poll \/ Usleep \/ CondTimedwait \/ CondSignal \/ CondBroadcast
  \/ MutexLock \/ MutexUnlock \/ MutexTrylock
  \/ Schedule \/ IdleLoop

Spec == Init /\ [][Next]_vars

(* ----------------- the resumption of a suspended call ------------------ *)
\* the primordial fiber has created a second fiber, taken the mutex when
\* held, and suspended itself in st_usleep; the second fiber runs
SecondRuns(held) ==
  Resume(st_vp_schedule(
    st_usleep(IF held THEN st_mutex_trylock(st_thread_create(Start, FALSE), 0)
              ELSE st_thread_create(Start, FALSE),
              ST_UTIME_NO_TIMEOUT)))

\* what _st_add_sleep_q leaves on an empty heap once heap_insert is past its
\* bit count: the fiber is the root of the heap; st_usleep with a timeout
\* sets the state Sleeping
SleepQueued(s, thread, timeout) ==
  IF timeout = ST_UTIME_NO_TIMEOUT THEN s
  ELSE [s EXCEPT !.due[thread] = s.last_clock + timeout,
                 !.flags[thread] = @ \cup {ST_FL_ON_SLEEPQ},
                 !.sleepq_size = @ + 1,
                 !.heap_index[thread] = s.sleepq_size + 1,
                 !.sleep_q = thread,
                 !.left[thread] = NoThread, !.right[thread] = NoThread,
                 !.arg[thread].timeout = timeout,
                 !.state[thread] = IF @ = ST_ST_SUSPENDED THEN ST_ST_SLEEPING ELSE @]

\* the pollfd arrays of the waiters that are resumed
ResumePollSets ==
  { <<Pd(0, {POLLIN}), Pd(1, {POLLOUT})>>,
    <<Pd(0, {POLLIN, POLLOUT}), Pd(0, {POLLPRI})>>,
    <<Pd(1, {POLLIN, POLLPRI}), Pd(0, {POLLOUT})>>,
    <<Pd(1, {POLLIN})>> }

\* the descriptor and direction of the waiters in st_netfd_poll: st_read and
\* st_accept wait for POLLIN, st_write and st_connect for POLLOUT
NetfdPolls == {<<0, POLLIN>>, <<1, POLLOUT>>}

\* the second fiber suspended in each of the blocking calls
SuspendedCalls ==
  UNION { { SleepQueued(st_usleep(SecondRuns(FALSE), ST_UTIME_NO_TIMEOUT),
                        Me(SecondRuns(FALSE)), tmo),
            SleepQueued(st_cond_timedwait(SecondRuns(FALSE), 0, ST_UTIME_NO_TIMEOUT),
                        Me(SecondRuns(FALSE)), tmo),
            SleepQueued(st_mutex_lock(SecondRuns(TRUE), 0),
                        Me(SecondRuns(TRUE)), ST_UTIME_NO_TIMEOUT) }
          \cup { SleepQueued(st_poll(SecondRuns(FALSE), pds, ST_UTIME_NO_TIMEOUT),
                             Me(SecondRuns(FALSE)), tmo) : pds \in ResumePollSets }
          \cup { SleepQueued(st_netfd_poll(SecondRuns(FALSE), p[1], p[2],
                                           ST_UTIME_NO_TIMEOUT),
                             Me(SecondRuns(FALSE)), tmo) : p \in NetfdPolls }
          : tmo \in Timeouts }

\* what can make the suspended fiber of s runnable: an interrupt, its
\* timeout, a signal, the hand-off of the mutex, or the events of its poll
WakeUps(s) ==
  {Interrupt(s, Me(s))}
    \cup (IF ST_FL_ON_SLEEPQ \in s.flags[Me(s)] THEN {Expire(s, Me(s))} ELSE {})
    \cup (IF s.pc[Me(s)] = "st_cond_timedwait" THEN {WakeWaiter(s, Me(s))} ELSE {})
    \cup (IF s.pc[Me(s)] = "st_mutex_lock"
          THEN {UnlockLoop(s, 0, s.nxt[MutexQ(0)], Cardinality(Threads) + 1)} ELSE {})
    \cup (IF s.pc[Me(s)] \in {"st_poll", "st_netfd_poll"}
          THEN {DispatchEvents(s, kev) : kev \in KernelEvents(s)} ELSE {})

\* the states in which _st_vp_schedule is about to restore a fiber that was
\* suspended in a blocking call and woken, and possibly interrupted after it
\* was woken
ResumePoints ==
  {r \in UNION { WakeUps(s) \cup {Interrupt(w, Me(s)) : w \in WakeUps(s)}
                 : s \in SuspendedCalls } :
     Live(r) /\ r.state[Me(r)] = ST_ST_RUNNABLE}

InitResume == \E r \in ResumePoints : Holds(r)

\* the scheduler restores the woken fiber, which finishes its call
SpecResume == InitResume /\ [][Schedule]_vars

(* ------------------- a mutex with several waiters --------------------- *)
\* the scheduler restores the next fiber, which calls st_mutex_lock
LocksNext(s) == st_mutex_lock(Resume(st_vp_schedule(s)), 0)

\* the primordial fiber has created fibers 2, 3 and 4, taken the mutex and
\* suspended itself in st_usleep; fiber 2 has interrupted it; 2, 3 and 4 have
\* called st_mutex_lock in that order; the primordial fiber runs again
ThreeWaiters ==
  Resume(st_vp_schedule(
    LocksNext(LocksNext(
      st_mutex_lock(
        st_thread_interrupt(
          Resume(st_vp_schedule(
            st_usleep(
              st_mutex_trylock(
                st_thread_create(st_thread_create(st_thread_create(Start, FALSE), FALSE),
                                 FALSE), 0),
              ST_UTIME_NO_TIMEOUT))),
          Primordial), 0)))))

\* the owner interrupts the waiter t, or not
MayInterrupt(s, t, does) == IF does THEN st_thread_interrupt(s, t) ELSE s

\* the owner has interrupted some of the waiters
InitHandoff ==
  \E i2, i3, i4 \in BOOLEAN :
    Holds(MayInterrupt(MayInterrupt(MayInterrupt(ThreeWaiters, 2, i2), 3, i3), 4, i4))

\* the fibers unlock and lock the mutex and suspend themselves
NextHandoff ==
  \/ MutexLock \/ MutexUnlock \/ MutexTrylock
  \/ Usleep
  \/ Schedule \/ IdleLoop

SpecHandoff == InitHandoff /\ [][NextHandoff]_vars

(* ------------------------ the reactor under load ----------------------- *)
\* the pollfd arrays passed to st_poll: a descriptor named twice with
\* different interests, two descriptors, arrays the kernel refuses at the
\* second and at the third entry, and the three kinds of invalid entry
ReactorPollSets ==
  { <<Pd(0, {POLLIN}), Pd(0, {POLLIN, POLLOUT})>>,
    <<Pd(0, {POLLOUT}), Pd(1, {POLLPRI})>>,
    <<Pd(1, {POLLIN}), Pd(ClosedFd, {POLLIN})>>,
    <<Pd(0, {POLLIN}), Pd(0, {POLLOUT}), Pd(ClosedFd, {POLLIN})>>,
    <<Pd(0, {POLLIN}), Pd(-1, {POLLIN})>>,
    <<Pd(0, {})>>,
    <<Pd(1, {POLLIN, POLLERR})>> }

PollReactor ==
  UserRuns /\ \E pds \in ReactorPollSets, tmo \in Timeouts : Commit(st_poll(Cur, pds, tmo))

NetfdClose == UserRuns /\ \E fd \in osfd_open : Commit(st_netfd_close(Cur, fd))

\* st_thread_create for as many fibers as there can be
CreateAny ==
  /\ UserRuns /\ NewThread(Cur) # NoThread
  /\ Cardinality({t \in Created : pc[t] # "none"}) < MaxPollers
  /\ \E joinable \in BOOLEAN : Commit(st_thread_create(Cur, joinable))

NextReactor ==
  \/ CreateAny \/ ThreadInterrupt \/ PollReactor \/ NetfdClose
  \/ Schedule \/ IdleLoop

SpecReactor == Init /\ [][NextReactor]_vars

(* ------------------- st_poll with the counts recorded ------------------ *)
\* the pollfd arrays of the recorded calls: two that share descriptor 0, and
\* one that the kernel refuses at its second entry
RecordedPollSets ==
  { <<Pd(0, {POLLIN}), Pd(0, {POLLIN, POLLOUT})>>, <<Pd(0, {POLLOUT}), Pd(1, {POLLPRI})>>,
    <<Pd(1, {POLLIN}), Pd(ClosedFd, {POLLIN})>> }

\* st_poll with the ref counts at the call recorded for the caller
PollRecorded ==
  UserRuns /\ \E pds \in RecordedPollSets, tmo \in Timeouts :
    Commit([st_poll(Cur, pds, tmo) EXCEPT !.refs_at_call[this_thread] = Refs(Cur)])

NextPoll == \/ ThreadCreate \/ ThreadInterrupt \/ PollRecorded \/ Schedule \/ IdleLoop

SpecPoll == Init /\ [][NextPoll]_vars

(* ---------------- one timed call and the wait that follows ------------- *)
\* values of st_utime(): one second, a day in 2023 counted from 1970, and one
\* second before the 64-bit counter wraps
Clocks64 == {U64(0, 0, 15, 16960), U64(6, 2596, 6174, 16384), U64(65535, 65535, 65520, 48576)}

\* timeouts in microseconds: 0, 999, 1000, one second, INT_MAX milliseconds,
\* INT_MAX + 1 milliseconds, 30 days, 2^32 - 1 milliseconds, 2^32 milliseconds,
\* 2^63 and the largest value that is not ST_UTIME_NO_TIMEOUT
Usecs64 ==
  { Zero64, U64(0, 0, 0, 999), U64(0, 0, 0, 1000), U64(0, 0, 15, 16960),
    U64(0, 499, 65535, 64536), U64(0, 500, 0, 0), U64(0, 603, 32573, 16384),
    U64(0, 999, 65535, 64536), U64(0, 1000, 0, 0), U64(32768, 0, 0, 0),
    U64(65535, 65535, 65535, 65534) }

\* the time between two readings of the clock: 2 milliseconds, one second
Elapsed64 == {U64(0, 0, 0, 2000), U64(0, 0, 15, 16960)}

InitWait == \E c \in Clocks64 : Holds([Start EXCEPT !.wait64.last_clock = c])

\* _st_add_sleep_q on an empty heap: the fiber becomes the root, due at
\* last_clock + timeout
AddSleep64 ==
  /\ ~wait64.queued /\ ~wait64.waited
  /\ \E usecs \in Usecs64 :
       Commit([Cur EXCEPT !.wait64.queued = TRUE,
                          !.wait64.due = Add64(wait64.last_clock, usecs)])

\* _st_vp_check_clock: last_clock becomes st_utime(), and a root that is due
\* leaves the heap
CheckClock64 ==
  /\ ~wait64.ticked /\ ~wait64.waited
  /\ \E e \in Elapsed64 :
       Let(Add64(wait64.last_clock, e), LAMBDA t :
         Commit([Cur EXCEPT !.wait64.ticked = TRUE, !.wait64.last_clock = t,
                            !.wait64.queued = wait64.queued /\ ~Leq64(wait64.due, t)]))

\* _st_epoll_dispatch computes the timeout and calls epoll_wait
Dispatch64 ==
  /\ ~wait64.waited
  /\ Commit([Cur EXCEPT !.wait64.waited = TRUE,
                        !.wait64.timeout =
                          EpollTimeout(wait64.queued, wait64.due, wait64.last_clock)])

NextWait == AddSleep64 \/ CheckClock64 \/ Dispatch64

SpecWait == InitWait /\ [][NextWait]_vars

(* ------------------------- reading the queues ------------------------- *)
\* the anchors met walking a list along next from n until head comes round
\* again; a walk that does not come round stops after k anchors
RECURSIVE Walk(_, _, _, _)
Walk(nx, head, n, k) ==
  IF n = head \/ n = NULL \/ k = 0 THEN <<>>
  ELSE <<n>> \o Walk(nx, head, nx[n], k - 1)

\* what a walk of the list anchored at head meets, under the next pointers nx
QueueIn(nx, head) == Walk(nx, head, nx[head], Cardinality(Nodes))
Queue(head) == QueueIn(nxt, head)

\* how often the walk q meets the anchor x
Times(q, x) == Cardinality({i \in 1..Len(q) : q[i] = x})

\* the fibers that exist: created and not yet gone
Alive(t) == pc[t] \notin {"none", "exited"}

\* the process has not ended
Running == mode \in {"run", "sched"}

\* the states a fiber is suspended in
BlockedStates ==
  {ST_ST_IO_WAIT, ST_ST_LOCK_WAIT, ST_ST_COND_WAIT, ST_ST_SLEEPING, ST_ST_SUSPENDED}

\* the calls that can suspend their caller
SuspendingCalls == {"st_poll", "st_usleep", "st_cond_timedwait", "st_mutex_lock"}

(* ------------------------------- claims ------------------------------- *)
\* C1: every fiber other than the idle fiber whose state is Runnable is on
\* the run queue exactly once (so a second wake-up of a fiber that is
\* already Runnable must not enqueue it again)
C1_RunnableOnRunQueueOnce ==
  Running =>
    \A t \in Threads \ {IdleThread} :
      (Alive(t) /\ state[t] = ST_ST_RUNNABLE) => Times(Queue(RUNQ), Links(t)) = 1

\* C1: a signal has enqueued a fiber that was Runnable and queued already
C1_SignalEnqueuedAgain ==
  /\ Running /\ ret.call = "st_cond_signal"
  /\ \E t \in Threads \ {IdleThread} :
       /\ state[t] = ST_ST_RUNNABLE /\ ST_FL_INTERRUPT \in flags[t]
       /\ Times(Queue(RUNQ), Links(t)) > 1

\* C2: while a fiber executes, exactly one fiber is Running, it is the
\* current fiber, and it is on no scheduler queue; this holds for the idle
\* fiber too while it executes
C2_OneRunningOffQueues ==
  mode = "run" =>
    /\ \A t \in Threads : Alive(t) => (state[t] = ST_ST_RUNNING <=> t = this_thread)
    /\ Times(Queue(RUNQ), Links(this_thread)) = 0
    /\ Times(Queue(ZOMBIEQ), Links(this_thread)) = 0
    /\ Times(Queue(IOQ), PqLinks(this_thread)) = 0

\* C2: the idle fiber executes while it is Runnable and on the run queue
C2_IdleRunnableWhileExecuting ==
  /\ mode = "run" /\ this_thread = IdleThread
  /\ state[IdleThread] = ST_ST_RUNNABLE
  /\ Times(Queue(RUNQ), Links(IdleThread)) > 0

\* the scheduler queues and the wait lists
SchedQueues == {RUNQ, IOQ, ZOMBIEQ}
WaitLists == {CondQ(c) : c \in Conds} \cup {MutexQ(m) : m \in Mutexes}

\* C3: a fiber's scheduler link is on at most one of the run, I/O and zombie
\* queues, its wait link on at most one wait list, and no queue holds the
\* same fiber twice
C3_OneQueuePerLink ==
  Running =>
    \A t \in Threads :
      /\ Cardinality({h \in SchedQueues : Times(Queue(h), Links(t)) > 0}) <= 1
      /\ Cardinality({h \in WaitLists : Times(Queue(h), WaitLinks(t)) > 0}) <= 1
      /\ \A h \in Heads :
           /\ Times(Queue(h), Links(t)) <= 1
           /\ Times(Queue(h), WaitLinks(t)) <= 1
           /\ Times(Queue(h), PqLinks(t)) <= 1

\* C3: a walk of the run queue meets one fiber more than once
C3_TwiceOnRunQueue ==
  Running /\ \E t \in Threads : Times(Queue(RUNQ), Links(t)) > 1

\* C4: a suspending call entered with the Interrupted flag set fails with
\* EINTR without suspending, and the flag is clear when it has returned
C4_InterruptedOnEntry ==
  [][(/\ UserRuns
      /\ ST_FL_INTERRUPT \in flags[this_thread]
      /\ (pc'[this_thread] \in SuspendingCalls \/ ret'.call \in SuspendingCalls))
     => (/\ mode' = "run"
         /\ ret'.thread = this_thread /\ ret'.call \in SuspendingCalls
         /\ ret'.rv = -1 /\ ret'.errno = EINTR
         /\ ST_FL_INTERRUPT \notin flags'[this_thread])]_vars

\* C4: a suspending call other than st_poll has returned EINTR to a fiber
\* whose Interrupted flag is still set
C4_ReturnedStillInterrupted ==
  /\ mode = "run" /\ ret.call \in SuspendingCalls \ {"st_poll"}
  /\ ret.rv = -1 /\ ret.errno = EINTR
  /\ ret.thread = this_thread /\ ST_FL_INTERRUPT \in flags[this_thread]

\* the fiber t is linked into the sleep heap of the next state
OnHeapNext(t) == sleep_q' = t \/ \E u \in Threads : left'[u] = t \/ right'[u] = t

\* the step restores the fiber t, which heads the run queue
Resumes(t) ==
  /\ mode = "sched" /\ active_count # 0
  /\ nxt[RUNQ] = Links(t) /\ state[t] = ST_ST_RUNNABLE
  /\ this_thread' = t

C6_InterruptRunnableOnlyFlags ==
  [][\A t \in Handles :
       (UserRuns /\ Commit(st_thread_interrupt(Cur, t))) =>
         /\ state[t] \in {ST_ST_RUNNABLE, ST_ST_RUNNING} =>
              /\ flags' = [flags EXCEPT ![t] = @ \cup {ST_FL_INTERRUPT}]
              /\ UNCHANGED <<state, term, retval, nxt, prv, sleep_q, sleepq_size, left,
                             right, heap_index, due, last_clock, now, active_count,
                             this_thread, owner, fd_data, kreg, evtlist_cnt, pq, pc, arg,
                             free_stacks, mode>>
         /\ state[t] = ST_ST_ZOMBIE =>
              UNCHANGED <<state, flags, term, retval, nxt, prv, sleep_q, sleepq_size,
                          left, right, heap_index, due, last_clock, now, active_count,
                          this_thread, owner, fd_data, kreg, evtlist_cnt, pq, pc, arg,
                          free_stacks, mode>>]_vars

\* C6: a fiber that has not run yet was interrupted while Runnable: it has
\* the flag and is on the run queue once, as before
C6_RunnableInterrupted ==
  /\ mode = "run" /\ ret.call = "st_thread_interrupt"
  /\ \E t \in Handles \ {this_thread} :
       /\ pc[t] = "user" /\ state[t] = ST_ST_RUNNABLE
       /\ ST_FL_INTERRUPT \in flags[t]
       /\ Times(Queue(RUNQ), Links(t)) = 1

\* the wait links of the fibers on the condvar's list whose state is CondWait,
\* in list order
CondWaiters(c) ==
  SelectSeq(Queue(CondQ(c)), LAMBDA q : state[ST_THREAD_WAITQ_PTR(q)] = ST_ST_COND_WAIT)

\* the step makes exactly the fibers of ws Runnable and appends them, in
\* order, to the run queue
Wakes(ws) ==
  /\ mode' = "run"
  /\ state' = [t \in Threads |->
                 IF \E i \in 1..Len(ws) : ws[i] = WaitLinks(t)
                 THEN ST_ST_RUNNABLE ELSE state[t]]
  /\ QueueIn(nxt', RUNQ) =
       Queue(RUNQ) \o [i \in 1..Len(ws) |-> Links(ST_THREAD_WAITQ_PTR(ws[i]))]

\* C7: st_cond_signal wakes at most one waiter, the earliest on the list
\* that is still in CondWait, passing over waiters that are Runnable
\* already; st_cond_broadcast wakes every waiter in CondWait
C7_SignalWakesEarliestWaiter ==
  [][\A c \in UserConds :
       /\ (UserRuns /\ Commit(st_cond_signal(Cur, c)))
            => Wakes(IF CondWaiters(c) = <<>> THEN <<>> ELSE <<Head(CondWaiters(c))>>)
       /\ (UserRuns /\ Commit(st_cond_broadcast(Cur, c)))
            => Wakes(CondWaiters(c))]_vars

\* C7: a signal for a waiter in CondWait has ended the process
C7_SignalCrashed ==
  /\ mode = "crash" /\ pc[this_thread] = "st_cond_signal"
  /\ \E c \in UserConds : CondWaiters(c) # <<>>

Triggered(pds) == Cardinality({i \in 1..Len(pds) : pds[i].revents # {}})

C12_PollZeroTimeoutReturnsZero ==
  [][/\ \A pds \in PollSets :
          (/\ UserRuns /\ ST_FL_INTERRUPT \notin flags[this_thread]
           /\ st_epoll_pollset_add(Cur, pds).rv = 0
           /\ Commit(st_poll(Cur, pds, 0)))
            => /\ mode' = "sched"
               /\ state'[this_thread] = ST_ST_IO_WAIT
               /\ ST_FL_ON_SLEEPQ \in flags'[this_thread] /\ OnHeapNext(this_thread)
               /\ due'[this_thread] = last_clock
     /\ \A t \in Handles :
          /\ (/\ mode = "run" /\ pc[this_thread] = "idle"
              /\ pc[t] = "st_poll" /\ ST_FL_ON_SLEEPQ \in flags[t] /\ due[t] <= now')
               => /\ state'[t] = ST_ST_RUNNABLE
                  /\ Times(QueueIn(nxt', RUNQ), Links(t)) = 1
          /\ (/\ Resumes(t) /\ pc[t] = "st_poll" /\ arg[t].timeout = 0
              /\ pq[t].on_ioq /\ ST_FL_INTERRUPT \notin flags[t])
               => ret' = [thread |-> t, call |-> "st_poll", rv |-> 0, errno |-> OK]]_vars

\* C12: st_poll with timeout 0 never got as far as suspending its caller
C12_PollZeroTimeoutHangs ==
  /\ mode = "hang" /\ pc[this_thread] = "st_poll" /\ arg[this_thread].timeout = 0
  /\ pq[this_thread].on_ioq /\ sleepq_size = 1

\* the fiber t is on none of the queues and wait lists of the next state
OffAllQueuesNext(t) ==
  \A h \in Heads :
    /\ Times(QueueIn(nxt', h), Links(t)) = 0
    /\ Times(QueueIn(nxt', h), WaitLinks(t)) = 0
    /\ Times(QueueIn(nxt', h), PqLinks(t)) = 0

\* C13: st_usleep(ST_UTIME_NO_TIMEOUT) leaves its caller Suspended, on no
\* queue and not on the sleep heap; only st_thread_interrupt on that fiber
\* changes its state again, to Runnable; and the call then fails with EINTR
C13_SuspendedUntilInterrupted ==
  [][/\ (/\ UserRuns /\ ST_FL_INTERRUPT \notin flags[this_thread]
         /\ Commit(st_usleep(Cur, ST_UTIME_NO_TIMEOUT)))
          => /\ mode' = "sched"
             /\ state'[this_thread] = ST_ST_SUSPENDED
             /\ OffAllQueuesNext(this_thread)
             /\ ST_FL_ON_SLEEPQ \notin flags'[this_thread] /\ ~OnHeapNext(this_thread)
     /\ \A t \in Handles :
          /\ (/\ pc[t] = "st_usleep" /\ state[t] = ST_ST_SUSPENDED
              /\ state'[t] # ST_ST_SUSPENDED)
               => /\ UserRuns /\ Commit(st_thread_interrupt(Cur, t))
                  /\ state'[t] = ST_ST_RUNNABLE
          /\ (/\ Resumes(t) /\ pc[t] = "st_usleep"
              /\ arg[t].timeout = ST_UTIME_NO_TIMEOUT)
               => ret' = [thread |-> t, call |-> "st_usleep", rv |-> -1, errno |-> EINTR]]_vars

\* C13: a fiber has suspended itself in st_usleep(ST_UTIME_NO_TIMEOUT) while a
\* walk of the run queue still meets it
C13_SuspendedOnRunQueue ==
  /\ mode = "sched"
  /\ pc[this_thread] = "st_usleep" /\ arg[this_thread].timeout = ST_UTIME_NO_TIMEOUT
  /\ state[this_thread] = ST_ST_SUSPENDED
  /\ Times(Queue(RUNQ), Links(this_thread)) > 0

\* the wait links of the fibers on the mutex's list whose state is LockWait,
\* in list order
LockWaiters(m) ==
  SelectSeq(Queue(MutexQ(m)), LAMBDA q : state[ST_THREAD_WAITQ_PTR(q)] = ST_ST_LOCK_WAIT)

\* in the next state the anchor x is the last a walk of the list head meets,
\* and the walk meets it once
LastOnceNext(head, x) ==
  /\ prv'[head] = x /\ nxt'[x] = head
  /\ Times(QueueIn(nxt', head), x) = 1
  /\ QueueIn(nxt', head)[Len(QueueIn(nxt', head))] = x

\* C14: st_mutex_lock on a mutex another fiber holds appends the caller to
\* the end of the wait list; st_mutex_unlock by the owner makes the first
\* waiter on the list that is in LockWait the owner at once (the owner is
\* never None in between), makes only that fiber Runnable and appends it to
\* the run queue, and leaves the other waiters waiting; with no such waiter
\* the owner becomes None
C14_UnlockHandsToEarliestWaiter ==
  [][\A m \in Mutexes :
       /\ (/\ UserRuns /\ ST_FL_INTERRUPT \notin flags[this_thread]
           /\ owner[m] \notin {NoThread, this_thread}
           /\ Commit(st_mutex_lock(Cur, m)))
            => /\ QueueIn(nxt', MutexQ(m)) = Append(Queue(MutexQ(m)), WaitLinks(this_thread))
               /\ state'[this_thread] = ST_ST_LOCK_WAIT /\ owner' = owner
       /\ (UserRuns /\ owner[m] = this_thread /\ Commit(st_mutex_unlock(Cur, m)))
            => /\ mode' = "run"
               /\ QueueIn(nxt', MutexQ(m)) = Queue(MutexQ(m))
               /\ IF LockWaiters(m) = <<>>
                  THEN /\ owner'[m] = NoThread /\ state' = state
                       /\ nxt' = nxt /\ prv' = prv
                  ELSE /\ owner'[m] = ST_THREAD_WAITQ_PTR(Head(LockWaiters(m)))
                       /\ state' = [state EXCEPT ![owner'[m]] = ST_ST_RUNNABLE]
                       /\ LastOnceNext(RUNQ, Links(owner'[m]))]_vars

\* C14: three fibers wait for the mutex in the order 2, 3, 4; the owner has
\* unlocked it: fiber 2 owns it and is Runnable, 3 and 4 still wait
C14_HandedToFirstOfThree ==
  /\ mode = "run" /\ ret.call = "st_mutex_unlock" /\ ret.rv = 0
  /\ Queue(MutexQ(0)) = <<WaitLinks(2), WaitLinks(3), WaitLinks(4)>>
  /\ owner[0] = 2 /\ state[2] = ST_ST_RUNNABLE
  /\ state[3] = ST_ST_LOCK_WAIT /\ state[4] = ST_ST_LOCK_WAIT

\* the fiber t is on the wait list of the mutex m
OnMutexList(m, t) == Times(Queue(MutexQ(m)), WaitLinks(t)) > 0

\* C15: every fiber on a mutex's wait list is in state LockWait, also after
\* an unlock has handed the mutex over and after a waiter was interrupted
C15_WaitersInLockWait ==
  Running =>
    \A m \in Mutexes, t \in Threads : OnMutexList(m, t) => state[t] = ST_ST_LOCK_WAIT

\* C15, amended: every fiber on a mutex's wait list is suspended in
\* st_mutex_lock on that mutex, on the list once, and either in LockWait or
\* Runnable because an unlock made it the owner or st_thread_interrupt woke
\* it; it leaves the list when it is resumed
C15_WaitersInLockWaitOrWoken ==
  Running =>
    \A m \in Mutexes, t \in Threads :
      OnMutexList(m, t) =>
        /\ pc[t] = "st_mutex_lock" /\ arg[t].lock = m
        /\ Times(Queue(MutexQ(m)), WaitLinks(t)) = 1
        /\ \/ state[t] = ST_ST_LOCK_WAIT
           \/ /\ state[t] = ST_ST_RUNNABLE
              /\ owner[m] = t \/ ST_FL_INTERRUPT \in flags[t]

\* C15: a waiter that an unlock made the owner is Runnable and still on the
\* wait list
C15_HandedOverStillListed ==
  /\ mode = "run" /\ ret.call = "st_mutex_unlock" /\ ret.rv = 0
  /\ \E m \in Mutexes, t \in Threads :
       OnMutexList(m, t) /\ owner[m] = t /\ state[t] = ST_ST_RUNNABLE

\* the step returns success from st_mutex_lock or st_mutex_trylock to fiber t
LockSucceeds(t) ==
  /\ mode' = "run" /\ this_thread' = t
  /\ ret'.thread = t /\ ret'.rv = 0 /\ ret'.call \in {"st_mutex_lock", "st_mutex_trylock"}

\* C16: st_mutex_lock and st_mutex_trylock return success to a fiber only
\* when it is the owner; the owner changes from a fiber only when that fiber
\* calls st_mutex_unlock; it changes from None only when a lock or trylock
\* of the new owner succeeds, and to another fiber only by a hand-off to a
\* fiber waiting in st_mutex_lock, whose call then returns success; so the
\* mutex is never held by two fibers
C16_MutualExclusion ==
  [][\A m \in Mutexes :
       /\ \A t \in Threads :
            /\ (/\ LockSucceeds(t)
                /\ \/ UserRuns /\ Commit(st_mutex_lock(Cur, m))
                   \/ UserRuns /\ Commit(st_mutex_trylock(Cur, m))
                   \/ Resumes(t) /\ pc[t] = "st_mutex_lock" /\ arg[t].lock = m)
                 => owner'[m] = t
            /\ (Resumes(t) /\ pc[t] = "st_mutex_lock" /\ arg[t].lock = m /\ owner[m] = t)
                 => LockSucceeds(t) /\ owner'[m] = t
       /\ (owner[m] # NoThread /\ owner'[m] # owner[m])
            => /\ UserRuns /\ this_thread = owner[m] /\ Commit(st_mutex_unlock(Cur, m))
               /\ owner'[m] # NoThread
                    => /\ pc[owner'[m]] = "st_mutex_lock" /\ arg[owner'[m]].lock = m
                       /\ state[owner'[m]] = ST_ST_LOCK_WAIT
       /\ (owner[m] = NoThread /\ owner'[m] # NoThread)
            => UserRuns /\ owner'[m] = this_thread /\ LockSucceeds(this_thread)]_vars

\* C16: a fiber holds the mutex and st_mutex_trylock has refused it to
\* another fiber
C16_RefusedWhileHeld ==
  /\ mode = "run"
  /\ ret = [thread |-> this_thread, call |-> "st_mutex_trylock", rv |-> -1, errno |-> EBUSY]
  /\ owner[0] \notin {NoThread, this_thread} /\ Alive(owner[0])

\* C17: a fiber waiting in st_mutex_lock that was interrupted before the
\* mutex was handed to it is not made the owner by any later step, and its
\* call returns EINTR; a fiber that was handed the mutex and interrupted
\* before it ran returns success and is the owner
C17_InterruptedWaiter ==
  [][\A m \in Mutexes, t \in Handles :
       /\ (/\ pc[t] = "st_mutex_lock" /\ arg[t].lock = m
           /\ state[t] = ST_ST_RUNNABLE /\ ST_FL_INTERRUPT \in flags[t]
           /\ owner[m] # t)
            => /\ owner'[m] # t
               /\ Resumes(t) => ret' = [thread |-> t, call |-> "st_mutex_lock", rv |-> -1,
                                         errno |-> EINTR]
               /\ (UserRuns /\ Commit(st_mutex_unlock(Cur, m)))
                    => /\ state'[t] = ST_ST_RUNNABLE
                       /\ Times(QueueIn(nxt', RUNQ), Links(t)) = Times(Queue(RUNQ), Links(t))
       /\ (/\ Resumes(t) /\ pc[t] = "st_mutex_lock" /\ arg[t].lock = m
           /\ ST_FL_INTERRUPT \in flags[t] /\ owner[m] = t)
            => /\ ret' = [thread |-> t, call |-> "st_mutex_lock", rv |-> 0, errno |-> OK]
               /\ owner'[m] = t]_vars

\* C17: st_mutex_lock has returned success to a fiber that was handed the
\* mutex and interrupted before it ran: it is the owner and has the flag
C17_HandedOverThenInterrupted ==
  /\ mode = "run"
  /\ ret = [thread |-> this_thread, call |-> "st_mutex_lock", rv |-> 0, errno |-> OK]
  /\ ST_FL_INTERRUPT \in flags[this_thread] /\ owner[0] = this_thread

\* the step returns -1 with the given errno from the call to the running
\* fiber, which goes on running, and changes no owner, list or fiber state
FailsUnchanged(call, errno) ==
  /\ mode' = "run" /\ this_thread' = this_thread
  /\ ret' = [thread |-> this_thread, call |-> call, rv |-> -1, errno |-> errno]
  /\ UNCHANGED <<owner, nxt, prv, state>>

\* C18: st_mutex_lock by the owner fails with EDEADLK and st_mutex_unlock by
\* a fiber that is not the owner fails with EPERM; neither suspends the
\* caller or changes the owner or the wait list
C18_DeadlockAndNotOwner ==
  [][\A m \in Mutexes :
       /\ (UserRuns /\ owner[m] = this_thread /\ Commit(st_mutex_lock(Cur, m)))
            => FailsUnchanged("st_mutex_lock", EDEADLK)
       /\ (UserRuns /\ owner[m] # this_thread /\ Commit(st_mutex_unlock(Cur, m)))
            => FailsUnchanged("st_mutex_unlock", EPERM)]_vars

\* C18, amended: st_mutex_lock by the owner fails with EDEADLK when the
\* owner's Interrupted flag is clear and with EINTR when it is set;
\* st_mutex_unlock by a fiber that is not the owner fails with EPERM;
\* neither suspends the caller or changes the owner or the wait list
C18_DeadlockUnlessInterrupted ==
  [][\A m \in Mutexes :
       /\ (UserRuns /\ owner[m] = this_thread /\ Commit(st_mutex_lock(Cur, m)))
            => FailsUnchanged("st_mutex_lock",
                              IF ST_FL_INTERRUPT \in flags[this_thread] THEN EINTR
                              ELSE EDEADLK)
       /\ (UserRuns /\ owner[m] # this_thread /\ Commit(st_mutex_unlock(Cur, m)))
            => FailsUnchanged("st_mutex_unlock", EPERM)]_vars

\* C18: st_mutex_lock has failed with EDEADLK for the owner while another
\* fiber waits for the mutex
C18_OwnerLockedAgain ==
  /\ mode = "run"
  /\ ret = [thread |-> this_thread, call |-> "st_mutex_lock", rv |-> -1, errno |-> EDEADLK]
  /\ owner[0] = this_thread /\ Queue(MutexQ(0)) # <<>>

\* another fiber waits on the condvar a join of t would wait on
BeingJoined(t) == IF term[t] = NoCond THEN FALSE ELSE Queue(CondQ(term[t])) # <<>>

JoinSucceeds(t) ==
  /\ \/ UserRuns /\ Commit(st_thread_join(Cur, t))
     \/ /\ Resumes(this_thread')
        /\ pc[this_thread'] = "st_thread_join"
        /\ arg[this_thread'].target = t
  /\ ret'.call = "st_thread_join" /\ ret'.thread = this_thread' /\ ret'.rv = 0

JoinedZombie(t) ==
  /\ t # Primordial /\ pc[t] = "st_thread_exit" /\ term[t] # NoCond
  /\ state[t] = ST_ST_RUNNABLE

\* the stack of fiber t is on the free list, once
StackFree(t) == Times(free_stacks, t) = 1

Counted == {t \in Threads \ {IdleThread} : pc[t] \notin {"none", "exited", "st_thread_exit"}}

\* C22: the active count is the number of non-idle fibers that have not
\* called st_thread_exit. A round of the ping-pong: st_cond_signal for a
\* fiber waiting on the condvar leaves the signaller running, the count as it
\* was and the waiter Runnable, and the waiter, once resumed with no flag
\* set, returns from its wait with success
C22_ActiveCountAndPingPong ==
  /\ [](active_count = Cardinality(Counted))
  /\ [][\A c \in UserConds :
          /\ (UserRuns /\ CondWaiters(c) # <<>> /\ Commit(st_cond_signal(Cur, c)))
               => /\ mode' = "run" /\ this_thread' = this_thread
                  /\ active_count' = active_count
                  /\ state'[ST_THREAD_WAITQ_PTR(Head(CondWaiters(c)))] = ST_ST_RUNNABLE
          /\ \A t \in Threads :
               (/\ Resumes(t) /\ pc[t] = "st_cond_timedwait" /\ arg[t].cvar = c
                /\ flags[t] \cap {ST_FL_INTERRUPT, ST_FL_TIMEDOUT} = {})
                 => ret' = [thread |-> t, call |-> "st_cond_timedwait", rv |-> 0,
                            errno |-> OK]]_vars

\* C22: two fibers are counted, one waits on the condvar without a timeout
\* and the first signal of the other has ended the process
C22_FirstSignalEndsProcess ==
  /\ mode = "crash" /\ pc[this_thread] = "st_cond_signal"
  /\ active_count = 2 /\ Cardinality(Counted) = 2
  /\ \E t \in Counted \ {this_thread} :
       /\ pc[t] = "st_cond_timedwait" /\ arg[t].timeout = ST_UTIME_NO_TIMEOUT
       /\ state[t] = ST_ST_COND_WAIT /\ Queue(CondQ(arg[t].cvar)) = <<WaitLinks(t)>>

\* C23: while the program runs, after every step (each step completes the
\* reactor operations it calls), every descriptor is registered with the
\* kernel exactly when one of its read, write and priority counts is not
\* zero, its registered mask is the OR of the bits of the non-zero counts,
\* and no revents are latched
C23_RegisteredIffReferenced ==
  Running =>
    \A fd \in AllFds :
      /\ kreg[fd].reg <=> (fd_data[fd].rd # 0 \/ fd_data[fd].wr # 0 \/ fd_data[fd].ex # 0)
      /\ kreg[fd].events = ST_EPOLL_EVENTS(Cur, fd)
      /\ fd_data[fd].revents = {}

\* C23: a dispatch pass has notified one poller and left the interests of a
\* second poller registered, descriptor 0 with a mask of two bits
C23_DispatchedOneOfTwo ==
  /\ mode = "run" /\ pc[this_thread] = "idle"
  /\ \E t, u \in Handles :
       /\ t # u
       /\ pc[t] = "st_poll" /\ ~pq[t].on_ioq /\ state[t] = ST_ST_RUNNABLE
       /\ \E i \in 1..Len(pq[t].pds) : pq[t].pds[i].revents # {}
       /\ pc[u] = "st_poll" /\ pq[u].on_ioq /\ state[u] = ST_ST_IO_WAIT
  /\ kreg[0] = [reg |-> TRUE, events |-> {POLLIN, POLLOUT}]
  /\ fd_data[0].rd = 2

\* valid pollfd arrays: every entry alone, and every entry followed by one
\* of three second entries, which name the same descriptor or the other one
Interests == (SUBSET {POLLIN, POLLOUT, POLLPRI}) \ {{}}
SecondEntries == {Pd(0, {POLLIN, POLLOUT}), Pd(0, {POLLPRI}), Pd(1, {POLLIN})}
ValidArrays ==
  {<<Pd(fd, ev)>> : fd \in Fds, ev \in Interests}
    \cup {<<Pd(fd, ev), pd>> : fd \in Fds, ev \in Interests, pd \in SecondEntries}

\* the reactor's part of the state s
Reactor(s) == <<s.fd_data, s.kreg, s.evtlist_cnt>>

\* C24: in every state the running program reaches, for every valid array,
\* an add_interest that succeeds followed by remove_interest of the same
\* array leaves every count, every kernel registration and the
\* registered-descriptor counter as before the add
C24_AddThenRemoveRestores ==
  Running =>
    \A pds \in ValidArrays :
      Let(st_epoll_pollset_add(Cur, pds), LAMBDA a :
        a.rv = 0 => Reactor(st_epoll_pollset_del(a.st, pds, 1, Len(pds))) = Reactor(Cur))

\* C24: descriptor 0 has readers and is registered, and an array that names
\* it twice, for reading and for reading and writing, can be added: the add
\* changes the counts and the mask
C24_AddTwiceOnTop ==
  /\ mode = "run" /\ UserRuns
  /\ fd_data[0].rd > 0 /\ kreg[0].reg /\ fd_data[1].ex > 0
  /\ Let(st_epoll_pollset_add(Cur, <<Pd(0, {POLLIN}), Pd(0, {POLLIN, POLLOUT})>>), LAMBDA a :
       /\ a.rv = 0
       /\ a.st.kreg[0].events = {POLLIN, POLLOUT}
       /\ a.st.fd_data[0].rd = fd_data[0].rd + 2)

\* C25: an st_poll whose array is invalid, or is refused by the kernel at
\* some entry, returns -1 with the counts, the kernel registrations and the
\* registered-descriptor counter as before the call; the caller keeps
\* running, is on neither the I/O queue nor the sleep heap, and no list and
\* no fiber's state has changed
C25_FailedAddRolledBack ==
  [][\A pds \in ReactorPollSets \cup PollSets, tmo \in Timeouts :
       (/\ UserRuns /\ ST_FL_INTERRUPT \notin flags[this_thread]
        /\ Commit(st_poll(Cur, pds, tmo))
        /\ st_epoll_pollset_add(Cur, pds).rv < 0)
         => /\ Reactor(Cur)' = Reactor(Cur)
            /\ ret' = [thread |-> this_thread, call |-> "st_poll", rv |-> -1,
                       errno |-> IF ValidPds(pds) THEN EKERNEL ELSE EINVAL]
            /\ mode' = "run" /\ this_thread' = this_thread
            /\ pc'[this_thread] = "user" /\ ~pq'[this_thread].on_ioq
            /\ nxt' = nxt /\ prv' = prv /\ state' = state /\ flags' = flags
            /\ sleep_q' = sleep_q /\ sleepq_size' = sleepq_size
            /\ left' = left /\ right' = right]_vars

\* C25: the kernel has refused an array after its first entries were
\* applied, while another fiber's interests in descriptor 0 are registered
C25_RefusedOnTopOfOthers ==
  /\ mode = "run"
  /\ ret = [thread |-> this_thread, call |-> "st_poll", rv |-> -1, errno |-> EKERNEL]
  /\ kreg[0] = [reg |-> TRUE, events |-> {POLLIN, POLLOUT}]
  /\ fd_data[0].rd = 2 /\ fd_data[0].wr = 1
  /\ \E t \in Handles \ {this_thread} : pc[t] = "st_poll" /\ pq[t].on_ioq

\* a read, write or priority count of descriptor fd is not zero
Referenced(fd) == fd_data[fd].rd # 0 \/ fd_data[fd].wr # 0 \/ fd_data[fd].ex # 0

\* C26: st_netfd_close of a descriptor with a non-zero count fails with
\* EBUSY, and the descriptor stays open with the counts, the kernel
\* registrations, the lists and the fibers' states unchanged; with the three
\* counts zero it succeeds and the descriptor is closed
C26_CloseRefusedWhileReferenced ==
  [][\A fd \in osfd_open :
       (UserRuns /\ Commit(st_netfd_close(Cur, fd)))
         => IF Referenced(fd)
            THEN /\ ret' = [thread |-> this_thread, call |-> "st_netfd_close", rv |-> -1,
                            errno |-> EBUSY]
                 /\ osfd_open' = osfd_open /\ Reactor(Cur)' = Reactor(Cur)
                 /\ nxt' = nxt /\ prv' = prv /\ state' = state /\ pq' = pq
            ELSE /\ ret' = [thread |-> this_thread, call |-> "st_netfd_close", rv |-> 0,
                            errno |-> OK]
                 /\ osfd_open' = osfd_open \ {fd}]_vars

\* C26: a close has been refused while another fiber waits in st_poll with
\* an interest in an open descriptor
C26_CloseRefused ==
  /\ mode = "run"
  /\ ret = [thread |-> this_thread, call |-> "st_netfd_close", rv |-> -1, errno |-> EBUSY]
  /\ \E fd \in osfd_open : Referenced(fd) /\ kreg[fd].reg
  /\ \E t \in Handles \ {this_thread} : pc[t] = "st_poll" /\ pq[t].on_ioq

\* how many entries of the arrays of the waiters on the I/O queue name the
\* descriptor fd with the interest bit
InterestCount(fd, bit) ==
  Cardinality({e \in Threads \X (1..3) :
                 /\ pq[e[1]].on_ioq /\ e[2] <= Len(pq[e[1]].pds)
                 /\ pq[e[1]].pds[e[2]].fd = fd /\ bit \in pq[e[1]].pds[e[2]].events})

\* the descriptor table and the kernel's interest list are what the waiters
\* on the I/O queue ask for
RebuiltFromIoq ==
  /\ \A fd \in AllFds :
       /\ fd_data[fd] = [rd |-> InterestCount(fd, POLLIN), wr |-> InterestCount(fd, POLLOUT),
                         ex |-> InterestCount(fd, POLLPRI), revents |-> {}]
       /\ kreg[fd] = IF ST_EPOLL_EVENTS(Cur, fd) = {} THEN NotRegistered
                     ELSE [reg |-> TRUE, events |-> ST_EPOLL_EVENTS(Cur, fd)]
  /\ evtlist_cnt = Cardinality({fd \in AllFds : kreg[fd].reg})

\* the fibers that wait for something other than I/O
OtherWaiters ==
  {t \in Threads : state[t] \in {ST_ST_LOCK_WAIT, ST_ST_COND_WAIT, ST_ST_SLEEPING,
                                 ST_ST_SUSPENDED}}

HeapAround(s, t) ==
  <<s.sleep_q, s.sleepq_size,
    [u \in Threads \ {t} |-> <<s.left[u], s.right[u], s.heap_index[u]>>]>>

\* C28: in every state the running program reaches, for every fiber that
\* is not on the sleep heap and every timeout, _st_add_sleep_q of the fiber
\* followed by _st_del_sleep_q of it returns, and leaves the root, the size
\* and every other fiber's children and heap_index as before the insert
C28_InsertThenDeleteRestores ==
  Running =>
    \A t \in Handles, tmo \in 0..MaxClock :
      ST_FL_ON_SLEEPQ \notin flags[t]
        => Let(st_del_sleep_q(st_add_sleep_q(Cur, t, tmo), t), LAMBDA r :
             Live(r) /\ HeapAround(r, t) = HeapAround(Cur, t))

\* C28: the insert of a fiber into the empty heap, made by st_cond_timedwait,
\* has not returned: the size is counted, the tree has no root
C28_InsertNeverReturns ==
  /\ mode = "hang" /\ pc[this_thread] = "st_cond_timedwait"
  /\ ST_FL_ON_SLEEPQ \in flags[this_thread]
  /\ sleepq_size = 1 /\ sleep_q = NoThread /\ heap_index[this_thread] = 1

\* the fibers on the sleep heap whose due is at most now
Expired(nw) == {t \in Threads : ST_FL_ON_SLEEPQ \in flags[t] /\ due[t] <= nw}

\* the step is one turn of the idle fiber's loop: dispatch, then check_clock
IdleTurn == mode = "run" /\ pc[this_thread] = "idle" /\ mode' = "run"

IsPrefix(p, q) == Len(p) <= Len(q) /\ SubSeq(q, 1, Len(p)) = p

\* the step is a turn of _st_vp_schedule that restores a fiber
Restores == mode = "sched" /\ active_count # 0 /\ mode' = "run"

\* C30: _st_vp_schedule restores the fiber at the head of the run queue and
\* takes it off, and restores the idle fiber only when the run queue is
\* empty; every other step leaves the fibers on the run queue in their order
\* and adds fibers only behind them, so that fibers are resumed in the order
\* in which they were enqueued
C30_RunQueueFifo ==
  [][/\ Restores =>
          IF Queue(RUNQ) = <<>> THEN this_thread' = IdleThread
          ELSE /\ Links(this_thread') = Head(Queue(RUNQ))
               /\ this_thread' # IdleThread
               /\ IsPrefix(Tail(Queue(RUNQ)), QueueIn(nxt', RUNQ))
     /\ (~Restores /\ Running') => IsPrefix(Queue(RUNQ), QueueIn(nxt', RUNQ))]_vars

\* the idle fiber executes with its link at the head of the run queue, and a
\* fiber that its reactor turn made Runnable cannot be reached from the head
C30_RunnableBehindQueuedIdle ==
  /\ mode = "run" /\ this_thread = IdleThread
  /\ nxt[RUNQ] = Links(IdleThread)
  /\ \E t \in Created : state[t] = "RUNNABLE" /\ Times(Queue(RUNQ), Links(t)) = 0

\* the step is one turn of the for (;;) loop of _st_idle_thread_start
IdlePass == mode = "run" /\ pc[this_thread] = "idle"

\* C31: a turn of the idle fiber's loop starts with no other fiber Runnable
\* (those that the turn before made Runnable were resumed first), and ends
\* with the idle fiber Runnable, once on the run queue, and the scheduler
\* executing; the idle fiber is never on the run queue more than once
C31_IdleYieldsEachPass ==
  /\ [][IdlePass =>
          /\ \A t \in Threads \ {IdleThread} : state[t] # ST_ST_RUNNABLE
          /\ mode' = "sched"
          /\ state'[IdleThread] = ST_ST_RUNNABLE
          /\ Times(QueueIn(nxt', RUNQ), Links(IdleThread)) = 1]_vars
  /\ [](Running => Times(Queue(RUNQ), Links(IdleThread)) <= 1)

\* C31: the idle fiber has made a fiber Runnable and queued itself behind
\* it, and still executes
C31_IdleRunsOnPastRunnable ==
  /\ mode = "run" /\ this_thread = IdleThread /\ state[IdleThread] = ST_ST_RUNNABLE
  /\ \E t \in Threads \ {IdleThread} :
       /\ state[t] = ST_ST_RUNNABLE
       /\ Queue(RUNQ) = <<Links(t), Links(IdleThread)>>

\* the step is a call of st_usleep, st_cond_timedwait or st_poll with the
\* finite timeout tmo by a fiber that is not interrupted
TimedCall(tmo) ==
  /\ UserRuns /\ ST_FL_INTERRUPT \notin flags[this_thread]
  /\ \/ Commit(st_usleep(Cur, tmo))
     \/ \E c \in UserConds : Commit(st_cond_timedwait(Cur, c, tmo))
     \/ \E pds \in PollSets : st_epoll_pollset_add(Cur, pds).rv = 0 /\ Commit(st_poll(Cur, pds, tmo))

\* C32: _st_add_sleep_q returns: a call of st_usleep, st_cond_timedwait or
\* st_poll with a finite timeout does not hang in heap_insert; it reaches its
\* context switch with the caller a node of the sleep heap
C32_InsertTerminates ==
  [][\A tmo \in Timeouts \ {ST_UTIME_NO_TIMEOUT} :
       TimedCall(tmo) =>
         /\ mode' # "hang"
         /\ mode' = "sched" /\ OnHeapNext(this_thread)
         /\ heap_index'[this_thread] \in 1..sleepq_size']_vars

\* C32: st_poll stands in heap_insert with its caller counted in the heap
\* size, heap_index 1, no root, and the caller's state not yet IoWait
C32_PollStuckInInsert ==
  /\ mode = "hang" /\ pc[this_thread] = "st_poll"
  /\ state[this_thread] = ST_ST_RUNNING
  /\ ST_FL_ON_SLEEPQ \in flags[this_thread]
  /\ heap_index[this_thread] = 1 /\ sleep_q = NoThread

\* the nodes of the tree below t in state s, each with its position: the
\* root is at 1, the left child of position i at 2i, the right at 2i + 1
RECURSIVE HeapMembers(_, _, _, _)
HeapMembers(s, t, i, fuel) ==
  IF t = NoThread \/ fuel = 0 THEN {}
  ELSE {<<t, i>>} \cup HeapMembers(s, s.left[t], 2 * i, fuel - 1)
                  \cup HeapMembers(s, s.right[t], 2 * i + 1, fuel - 1)

\* the sleep heap of state s is a min-heap on due whose heap_index fields
\* are the positions, and it has sleepq_size nodes
HeapOk(s) ==
  Let(HeapMembers(s, s.sleep_q, 1, Cardinality(Threads)), LAMBDA ns :
    /\ Cardinality(ns) = s.sleepq_size
    /\ \A n \in ns :
         /\ s.heap_index[n[1]] = n[2]
         /\ s.left[n[1]] # NoThread => s.due[n[1]] <= s.due[s.left[n[1]]]
         /\ s.right[n[1]] # NoThread => s.due[n[1]] <= s.due[s.right[n[1]]])

\* the fiber t is a node of the sleep heap of state s
OnHeap(s, t) == \E n \in HeapMembers(s, s.sleep_q, 1, Cardinality(Threads)) : n[1] = t

\* C33: the sleep heap a running program has is a min-heap on due with
\* heap_index equal to position; inserting any fiber that is not on it, with
\* any due, returns and gives such a heap with the fiber in it, and removing
\* any member of that heap gives such a heap again
C33_HeapOrderedAndIndexed ==
  Running =>
    /\ HeapOk(Cur)
    /\ \A t \in Handles, tmo \in 0..MaxClock :
         ST_FL_ON_SLEEPQ \notin flags[t]
           => Let(st_add_sleep_q(Cur, t, tmo), LAMBDA a :
                /\ Live(a) /\ HeapOk(a) /\ OnHeap(a, t)
                /\ \A u \in Threads :
                     OnHeap(a, u) => Let(st_del_sleep_q(a, u), LAMBDA d :
                                       Live(d) /\ HeapOk(d) /\ ~OnHeap(d, u)))

\* C33: st_usleep stands in heap_insert: the size counts its caller, and
\* the tree has no node at position 1
C33_CountedButNoNode ==
  /\ mode = "hang" /\ pc[this_thread] = "st_usleep"
  /\ sleepq_size = 1 /\ heap_index[this_thread] = 1
  /\ ~OnHeap(Cur, this_thread) /\ ~HeapOk(Cur)

\* the sleep heap as a whole: root, size, children, positions and flags
SleepHeap(s) ==
  <<s.sleep_q, s.sleepq_size, s.left, s.right, s.heap_index,
    {t \in Threads : ST_FL_ON_SLEEPQ \in s.flags[t]}>>

\* the condvar c has a waiter in CondWait, and none of them is on the heap
UntimedWaiters(c) ==
  /\ CondWaiters(c) # <<>>
  /\ \A i \in 1..Len(CondWaiters(c)) :
       ST_FL_ON_SLEEPQ \notin flags[ST_THREAD_WAITQ_PTR(CondWaiters(c)[i])]

\* C34: while the program runs, a fiber has the OnSleepHeap flag exactly
\* when it is a node of the sleep heap, and the size is the number of nodes
\* and not negative; st_cond_signal and st_cond_broadcast on waiters that
\* wait without a timeout return and leave the heap, its size and the
\* sleepers as they were
C34_FlagIffOnHeap ==
  /\ [](Running =>
          /\ \A t \in Threads : (ST_FL_ON_SLEEPQ \in flags[t]) = OnHeap(Cur, t)
          /\ sleepq_size >= 0
          /\ sleepq_size = Cardinality(HeapMembers(Cur, sleep_q, 1, Cardinality(Threads))))
  /\ [][\A c \in UserConds :
          (/\ UserRuns /\ UntimedWaiters(c)
           /\ (Commit(st_cond_signal(Cur, c)) \/ Commit(st_cond_broadcast(Cur, c))))
            => mode' = "run" /\ sleepq_size' >= 0 /\ SleepHeap(Cur)' = SleepHeap(Cur)]_vars

\* C34: st_cond_broadcast took a waiter without a timeout off the empty
\* heap: the size is negative and the process has ended
C34_NegativeSizeAfterBroadcast ==
  /\ mode = "crash" /\ pc[this_thread] = "st_cond_broadcast"
  /\ sleepq_size = -1 /\ sleep_q = NoThread
  /\ \E c \in UserConds : UntimedWaiters(c)

\* the events latched for descriptor fd when the kernel reports kev: with ERR
\* or HUP, the interest registered for the descriptor is added
Latched(kev, fd) ==
  IF kev[fd] \cap {POLLERR, POLLHUP} # {} THEN kev[fd] \cup kreg[fd].events ELSE kev[fd]

\* the latched events seen through the entry pd of a waiter's array: the
\* bits of IN, OUT and PRI the entry asks for, and ERR and HUP as they are
Projected(kev, pd) ==
  (Latched(kev, pd.fd) \cap pd.events \cap {POLLIN, POLLOUT, POLLPRI})
    \cup (Latched(kev, pd.fd) \cap {POLLERR, POLLHUP})

\* the fibers whose _st_pollq_t is on the I/O queue
IoWaiters == {t \in Threads : pq[t].on_ioq}

\* C35: in every state in which the idle fiber is about to call dispatch,
\* for every set of events the kernel may report, the pass notifies exactly
\* the waiters on the I/O queue that have an entry whose projected events
\* are not empty (with ERR or HUP on a descriptor, every waiter with an
\* entry for it); a notified waiter ends the pass off the I/O queue with
\* on_ioq clear, off the sleep heap, Runnable and once on the run queue; the
\* others stay on the I/O queue in their state; and the pass ends with the
\* idle fiber still executing, no fiber resumed in between
C35_DispatchNotifiesTriggered ==
  (mode = "run" /\ pc[this_thread] = "idle") =>
    \A forked \in BOOLEAN, kev \in KernelEvents(Cur) :
      Let(st_epoll_dispatch(Cur, forked, kev), LAMBDA d :
        /\ d.mode = "run" /\ d.this_thread = this_thread
        /\ \A t \in IoWaiters :
             IF \E i \in 1..Len(pq[t].pds) : Projected(kev, pq[t].pds[i]) # {}
             THEN /\ ~d.pq[t].on_ioq
                  /\ Times(QueueIn(d.nxt, IOQ), PqLinks(t)) = 0
                  /\ ST_FL_ON_SLEEPQ \notin d.flags[t] /\ ~OnHeap(d, t)
                  /\ d.state[t] = ST_ST_RUNNABLE
                  /\ Times(QueueIn(d.nxt, RUNQ), Links(t)) = 1
                  /\ \A i \in 1..Len(pq[t].pds) :
                       d.pq[t].pds[i].revents = Projected(kev, pq[t].pds[i])
             ELSE /\ d.pq[t].on_ioq
                  /\ Times(QueueIn(d.nxt, IOQ), PqLinks(t)) = 1
                  /\ d.state[t] = state[t]
                  /\ Times(QueueIn(d.nxt, RUNQ), Links(t)) = Times(Queue(RUNQ), Links(t)))

\* C35: two pollers wait for different events of descriptor 0, and the idle
\* fiber is about to call dispatch
C35_TwoPollersOneDescriptor ==
  /\ mode = "run" /\ pc[this_thread] = "idle"
  /\ \E t, u \in IoWaiters :
       /\ t # u
       /\ \E i \in 1..Len(pq[t].pds), j \in 1..Len(pq[u].pds) :
            /\ pq[t].pds[i].fd = 0 /\ pq[u].pds[j].fd = 0
            /\ pq[t].pds[i].events = {POLLIN} /\ pq[u].pds[j].events = {POLLOUT}

\* the fiber _st_vp_schedule picks: the one whose link heads the run queue,
\* or the idle fiber when the run queue is empty
Picked == IF nxt[RUNQ] = RUNQ THEN IdleThread ELSE nxt[RUNQ][2]

\* C36: whenever the scheduler is about to pick a fiber, the fiber it picks
\* is Runnable, so that the assertion of _st_vp_schedule holds
C36_PickedIsRunnable ==
  (mode = "sched" /\ active_count # 0) =>
    nxt[RUNQ][1] \in {"links", "run_q"} /\ state[Picked] = ST_ST_RUNNABLE

\* C36: a fiber that was interrupted in st_cond_wait and then signalled has
\* run and suspended itself in st_poll; its link still heads the run queue,
\* and the scheduler is about to pick it
C36_PicksWaiterInIoWait ==
  /\ mode = "sched" /\ active_count # 0
  /\ nxt[RUNQ][1] = "links"
  /\ pc[Picked] = "st_poll" /\ state[Picked] = ST_ST_IO_WAIT /\ pq[Picked].on_ioq

\* how many entries of the arrays of the waiters linked on the I/O queue
\* name the descriptor fd with the interest bit
QueuedInterest(fd, bit) ==
  Cardinality({e \in Threads \X (1..3) :
                 /\ Times(Queue(IOQ), PqLinks(e[1])) > 0 /\ e[2] <= Len(pq[e[1]].pds)
                 /\ pq[e[1]].pds[e[2]].fd = fd /\ bit \in pq[e[1]].pds[e[2]].events})

\* C38: whenever the scheduler or a fiber's own code is about to execute,
\* the read, write and priority counts of every descriptor are the numbers
\* of entries with that interest bit in the arrays of the waiters on the
\* I/O queue; no count is negative
C38_CountsAreQueuedInterests ==
  Running =>
    \A fd \in AllFds :
      /\ fd_data[fd].rd = QueuedInterest(fd, POLLIN)
      /\ fd_data[fd].wr = QueuedInterest(fd, POLLOUT)
      /\ fd_data[fd].ex = QueuedInterest(fd, POLLPRI)
      /\ fd_data[fd].rd >= 0 /\ fd_data[fd].wr >= 0 /\ fd_data[fd].ex >= 0

\* C38: the scheduler is about to execute with two waiters on the I/O queue
\* whose arrays name descriptor 0 twice for reading and twice for writing
C38_TwoArraysQueued ==
  /\ mode = "sched" /\ Len(Queue(IOQ)) = 2
  /\ fd_data[0].rd = 2 /\ fd_data[0].wr = 2 /\ fd_data[1].ex = 1

\* the step ends with st_poll returning to the fiber t: at once from the
\* call, or after the scheduler resumed t inside it
PollReturns(t) ==
  /\ mode' = "run" /\ this_thread' = t /\ pc'[t] = "user"
  /\ ret'.thread = t /\ ret'.call = "st_poll"
  /\ \/ UserRuns /\ this_thread = t
     \/ Resumes(t) /\ pc[t] = "st_poll"

\* after the step the _st_pollq_t of t is off the I/O queue and t is off
\* the sleep heap
OffIoqAndHeapNext(t) ==
  /\ ~pq'[t].on_ioq /\ Times(QueueIn(nxt', IOQ), PqLinks(t)) = 0
  /\ ST_FL_ON_SLEEPQ \notin flags'[t] /\ ~OnHeapNext(t)

\* C37 as stated: when st_poll returns, the caller's waiter is off the I/O
\* queue, the caller is off the sleep heap, and every descriptor's counts
\* are what they were when the call was made
C37_PollRestoresCountsAtCall ==
  [][\A t \in Threads :
       PollReturns(t) => OffIoqAndHeapNext(t) /\ Refs(Cur)' = refs_at_call'[t]]_vars

\* C37 amended: when st_poll returns, the caller's waiter is off the I/O
\* queue, the caller is off the sleep heap, and the call has left no
\* reference of its own: every descriptor's counts are the entries of the
\* waiters still on the I/O queue, so they differ from the counts at the
\* call only by what other fibers added or dropped in between; a call that
\* returns without suspending leaves the counts as they were
C37_PollLeavesNoReference ==
  [][\A t \in Threads :
       PollReturns(t) =>
         /\ OffIoqAndHeapNext(t)
         /\ \A fd \in AllFds :
              /\ fd_data'[fd].rd = QueuedInterest(fd, POLLIN)'
              /\ fd_data'[fd].wr = QueuedInterest(fd, POLLOUT)'
              /\ fd_data'[fd].ex = QueuedInterest(fd, POLLPRI)'
         /\ UserRuns => Refs(Cur)' = Refs(Cur)]_vars

\* C37: st_poll has returned EINTR to a fiber while another fiber, which
\* called st_poll after it, is still on the I/O queue with its references
C37_ReturnedBesideLaterWaiter ==
  /\ mode = "run" /\ ret.call = "st_poll" /\ ret.errno = EINTR
  /\ pc[this_thread] = "user" /\ ret.thread = this_thread
  /\ Refs(Cur) # refs_at_call[this_thread]
  /\ \E u \in Threads \ {this_thread} : pq[u].on_ioq /\ refs_at_call[u] # NoRefs

\* C39: st_usleep with a finite timeout by a fiber that is not interrupted
\* suspends it Sleeping with due = last_clock + timeout; while it is not
\* interrupted, only a turn of the idle fiber whose check_clock reads a
\* time at or after that due makes it Runnable; resumed, the call returns 0
C39_SleeperWokenWhenDue ==
  [][/\ \A tmo \in 0..MaxClock :
          (/\ UserRuns /\ ST_FL_INTERRUPT \notin flags[this_thread]
           /\ Commit(st_usleep(Cur, tmo)))
            => /\ mode' = "sched"
               /\ pc'[this_thread] = "st_usleep" /\ state'[this_thread] = ST_ST_SLEEPING
               /\ due'[this_thread] = last_clock + tmo
     /\ \A t \in Handles :
          /\ (/\ pc[t] = "st_usleep" /\ state[t] = ST_ST_SLEEPING
              /\ ST_FL_INTERRUPT \notin flags'[t] /\ state'[t] # ST_ST_SLEEPING)
               => IdlePass /\ now' >= due[t] /\ state'[t] = ST_ST_RUNNABLE
          /\ (/\ Resumes(t) /\ pc[t] = "st_usleep"
              /\ arg[t].timeout # ST_UTIME_NO_TIMEOUT /\ ST_FL_INTERRUPT \notin flags[t])
               => ret' = [thread |-> t, call |-> "st_usleep", rv |-> 0, errno |-> OK]]_vars

\* C39: st_usleep(0) by a fiber that is not interrupted stands in
\* heap_insert with its state Sleeping, while another fiber is Runnable and
\* waits on the run queue
C39_SleeperNeverSuspended ==
  /\ mode = "hang" /\ pc[this_thread] = "st_usleep"
  /\ state[this_thread] = ST_ST_SLEEPING /\ ST_FL_INTERRUPT \notin flags[this_thread]
  /\ due[this_thread] = last_clock + arg[this_thread].timeout
  /\ \E u \in Handles : state[u] = ST_ST_RUNNABLE /\ Queue(RUNQ) = <<Links(u)>>

====
